---------------------------- MODULE Spec2Model ----------------------------
(***************************************************************************)
(* A model of the chunking engine (rag/smart_chunker.py), the PDF text     *)
(* normalizer (rag/document_loader.py) and the retrieval scorer            *)
(* (rag/retriever.py) of the Maroclear RAG agent.                          *)
(*                                                                         *)
(* A Python str is a sequence of characters; a character is a one-element  *)
(* string.  Characters outside ASCII are written by their code point:      *)
(* "<e9>" is U+00E9 (e acute), "<c9>" is U+00C9 (E acute), "<2bc>" is      *)
(* U+02BC (modifier apostrophe), "<2019>" is U+2019 (right single quote),  *)
(* "<203a>" is U+203A (the bullet of the section headers), "<00>" is the   *)
(* NUL control character.                                                  *)
(***************************************************************************)
EXTENDS Integers, Sequences, FiniteSets, TLC

VARIABLES
    \* One call of SmartChunker.chunk: its arguments and what it returns.
    arg_text, arg_source, arg_force_format, arg_chunk_size, arg_overlap,
    ret_chunks,
    \* Where the call is: "ready" before it, "done" once it has returned.
    chunk_pc,
    \* The vector store as one query sees it: the stored chunks ranked by
    \* their distance to the query.
    collection,
    \* The fields of the Retriever.
    self_top_k, self_similarity_threshold,
    \* The last response of the store and what retrieve returned from it.
    store_results, ret_docs,
    \* The calls of retrieve made so far on this store and this query (the
    \* configuration and the result of each), and where the retriever is:
    \* "ready" before a call, "returned" after it.
    retr_history, retr_pc,
    \* What the collaborators did during the last call ("None": both answered,
    \* "EmbeddingError": embed_query raised, "StoreError": the query of the
    \* store raised), and the exception retrieve ended with ("None" if none).
    retr_fault, retr_error,
    \* The text the normalizer was last given, what it made of it, and how
    \* many times it has run.
    clean_input, clean_text, clean_passes,
    \* One call of SmartChunker.detect_format: its argument, what it returns
    \* ("None" before it returns), and where the call is.
    det_text, ret_format, det_pc,
    \* One run of index_documents: the workbook and the PDF documents the
    \* loader finds, the records collected (content, metadata and id of each),
    \* the texts given to chunker.chunk, the collection in the persist
    \* directory, what self.collection refers to ("none" before the store is
    \* opened, "live", or "stale" for a collection that was deleted), what
    \* went wrong inside clear_collection, the records given to
    \* add_documents, the exception the run ended with, where the run is, and
    \* the number of calls made on LocalVectorStore outside the run.
    idx_xlsx, idx_documents, idx_records, idx_chunked, persisted, vs_handle,
    clear_fault, idx_added, idx_error, idx_pc, vs_calls,
    \* The PDF files of the documents directory (of each its name, its pages
    \* as each extractor reads them, and how far each extractor gets), what
    \* load_pdf returned for the first of them, what load_all_documents
    \* returned, the PDF chunks debug_chunks.py collected, and which of the
    \* three have run.
    ld_dir, ret_text, ret_documents, dbg_chunks, ld_done,
    \* One call of RAGAgent.process: what the retriever returned, the context
    \* given to the LLM, the response (none yet: the empty sequence), the
    \* calls of retriever.retrieve and of llm_client.generate_rag_response
    \* made by this call, where the call is, and the questions asked so far.
    ag_docs, ag_context, ag_response, ag_retrieve_calls, ag_llm_calls, ag_pc,
    ag_questions

chunk_vars == <<arg_text, arg_source, arg_force_format, arg_chunk_size,
                arg_overlap, ret_chunks, chunk_pc>>
retr_vars == <<collection, self_top_k, self_similarity_threshold,
               store_results, ret_docs, retr_history, retr_pc,
               retr_fault, retr_error>>
clean_vars == <<clean_input, clean_text, clean_passes>>
det_vars == <<det_text, ret_format, det_pc>>
idx_vars == <<idx_xlsx, idx_documents, idx_records, idx_chunked, persisted, vs_handle,
              clear_fault, idx_added, idx_error, idx_pc, vs_calls>>
ld_vars == <<ld_dir, ret_text, ret_documents, dbg_chunks, ld_done>>
ag_vars == <<ag_docs, ag_context, ag_response, ag_retrieve_calls, ag_llm_calls, ag_pc,
             ag_questions>>
vars == <<chunk_vars, retr_vars, clean_vars, det_vars, idx_vars, ld_vars, ag_vars>>

\* --------------------------------------------------------------- characters

LF      == "\n"
SP      == " "
TAB     == "\t"
NUL     == "<00>"
EACUTE  == "<e9>"
UEACUTE == "<c9>"
MODAPOS == "<2bc>"
RSQUO   == "<2019>"
LDQUO   == "<201c>"
RDQUO   == "<201d>"
BULLET  == "<203a>"

\* The character classes of Python's re and str that the code relies on.
LowerLetters ==
    <<"a", "b", "c", "d", "e", "f", "g", "h", "i", "j", "k", "l", "m",
      "n", "o", "p", "q", "r", "s", "t", "u", "v", "w", "x", "y", "z">>
UpperLetters ==
    <<"A", "B", "C", "D", "E", "F", "G", "H", "I", "J", "K", "L", "M",
      "N", "O", "P", "Q", "R", "S", "T", "U", "V", "W", "X", "Y", "Z">>
AsciiLower == {LowerLetters[i] : i \in 1..26}
AsciiUpper == {UpperLetters[i] : i \in 1..26}
\* \d
Digits == {"0", "1", "2", "3", "4", "5", "6", "7", "8", "9"}
\* str.strip(), str.split() and the regex class \s agree on these.
Whitespace == {SP, LF, TAB}
\* [.!?]
SentenceEnd == {".", "!", "?"}

IsWs(c) == c \in Whitespace
\* [a-z<e0>-<ff>]: the ASCII lowercase letters and the range U+00E0..U+00FF.
ReLowerAcc(c) == c \in AsciiLower \cup {EACUTE}
\* [A-Z<c0>-<178>]: the range U+00C0..U+0178 holds the accented capitals and
\* also the accented lowercase letters U+00E0..U+00FF.
ReUpperAcc(c) == c \in AsciiUpper \cup {UEACUTE, EACUTE}
\* [A-Z and the thirteen accented capitals listed in the section patterns].
ReSectionUpper(c) == c \in AsciiUpper \cup {UEACUTE}

\* str.lower() on one character, and on a string.
PyLowerChar(c) ==
    IF c \in AsciiUpper THEN LowerLetters[CHOOSE i \in 1..26 : UpperLetters[i] = c]
    ELSE IF c = UEACUTE THEN EACUTE
    ELSE c

PyLower(s) == [i \in 1..Len(s) |-> PyLowerChar(s[i])]

\* ------------------------------------------------------------ str helpers

Max2(a, b) == IF a >= b THEN a ELSE b
Min2(a, b) == IF a <= b THEN a ELSE b

\* The elements of the set S of integers of lo..hi in increasing order, by
\* halves of the range.
RECURSIVE SortedSeq(_, _, _)
SortedSeq(S, lo, hi) ==
    IF lo > hi THEN <<>>
    ELSE IF lo = hi THEN (IF lo \in S THEN <<lo>> ELSE <<>>)
    ELSE LET mid == (lo + hi) \div 2
         IN  SortedSeq(S, lo, mid) \o SortedSeq(S, mid + 1, hi)

\* s[i:] and s[:i] for 0 <= i.
PyFrom(s, i) == SubSeq(s, i + 1, Len(s))
PyUpTo(s, i) == SubSeq(s, 1, Min2(i, Len(s)))

\* list[-k:] as Python evaluates it: a negative start counts from the end
\* and is clamped to 0; -0 is 0, the whole list.
PyLastK(l, k) ==
    IF k > 0 THEN SubSeq(l, Max2(Len(l) - k, 0) + 1, Len(l))
    ELSE SubSeq(l, Min2(-k, Len(l)) + 1, Len(l))

StartsWith(s, p) == Len(s) >= Len(p) /\ SubSeq(s, 1, Len(p)) = p
EndsWith(s, p) == Len(s) >= Len(p) /\ SubSeq(s, Len(s) - Len(p) + 1, Len(s)) = p
Contains(s, c) == \E i \in 1..Len(s) : s[i] = c

\* str.strip(): without the leading and trailing whitespace.
Strip(s) ==
    IF \A i \in 1..Len(s) : IsWs(s[i]) THEN <<>>
    ELSE LET first == CHOOSE i \in 1..Len(s) :
                          ~IsWs(s[i]) /\ \A j \in 1..(i - 1) : IsWs(s[j])
             back  == CHOOSE k \in 0..(Len(s) - 1) :
                          ~IsWs(s[Len(s) - k]) /\ \A j \in 0..(k - 1) : IsWs(s[Len(s) - j])
         IN  SubSeq(s, first, Len(s) - back)

\* The end of the maximal run of whitespace that starts at i.
WsRunEnd(s, i) ==
    CHOOSE j \in i..Len(s) :
        /\ \A k \in i..j : IsWs(s[k])
        /\ (j = Len(s) \/ ~IsWs(s[j + 1]))

\* str.split(): the maximal runs of non-whitespace characters, in order.
PySplit(s) ==
    LET n     == Len(s)
        first == SortedSeq({i \in 1..n : ~IsWs(s[i]) /\ (i = 1 \/ IsWs(s[i - 1]))}, 1, n)
        last  == SortedSeq({i \in 1..n : ~IsWs(s[i]) /\ (i = n \/ IsWs(s[i + 1]))}, 1, n)
    IN  [k \in 1..Len(first) |-> SubSeq(s, first[k], last[k])]

\* sep.join(words), by halves.
RECURSIVE JoinRange(_, _, _, _)
JoinRange(words, sep, lo, hi) ==
    IF lo > hi THEN <<>>
    ELSE IF lo = hi THEN words[lo]
    ELSE LET mid == (lo + hi) \div 2
         IN  JoinRange(words, sep, lo, mid) \o sep \o JoinRange(words, sep, mid + 1, hi)

PyJoin(sep, words) == JoinRange(words, sep, 1, Len(words))

\* The pieces of s between the separators: seps is the set of <<first, last>>
\* index pairs of the (disjoint, non-empty) separators.  A separator at the
\* start or the end of s leaves an empty piece there, as str.split(sep) and
\* re.split do.
Pieces(s, seps) ==
    LET n     == Len(s)
        first == SortedSeq({p[1] : p \in seps}, 1, n)
        last  == SortedSeq({p[2] : p \in seps}, 1, n)
        m     == Len(first)
    IN  [k \in 1..(m + 1) |->
            SubSeq(s, IF k = 1 THEN 1 ELSE last[k - 1] + 1,
                      IF k = m + 1 THEN n ELSE first[k] - 1)]

\* text.split("\n")
SplitLines(s) == Pieces(s, {<<i, i>> : i \in {j \in 1..Len(s) : s[j] = LF}})

\* re.split(r'(?<=[.!?])\s+', text): a separator is a maximal run of
\* whitespace that directly follows '.', '!' or '?'.  (A run of whitespace
\* matches only from its first character: further in, the character before
\* is whitespace.)
SplitSentences(s) ==
    Pieces(s, {<<i, WsRunEnd(s, i)>> :
                  i \in {j \in 2..Len(s) : IsWs(s[j]) /\ s[j - 1] \in SentenceEnd}})

\* --------------------------------------------------- narrative segmentation

\* OverlapSeed cut by characters: current[-overlap:].
OverlapSeedChars(current, overlap) == PyLastK(current, overlap)

\* The words that seed the buffer after current is emitted, joined:
\* " ".join(overlap_words).
OverlapSeed(current, overlap) ==
    LET last_words    == PySplit(current)
        overlap_words == IF Len(last_words) > overlap
                         THEN PyLastK(last_words, overlap)
                         ELSE last_words
    IN  PyJoin(<<SP>>, overlap_words)

\* The loop with the test on the buffer alone: len(current) > chunk_size.
RECURSIVE NarrativeLoopLateTest(_, _, _, _, _, _)
NarrativeLoopLateTest(sentences, i, chunks, current, chunk_size, overlap) ==
    IF i > Len(sentences) THEN <<chunks, current>>
    ELSE LET sentence == sentences[i]
         IN  IF Len(current) > chunk_size /\ current # <<>>
             THEN NarrativeLoopLateTest(sentences, i + 1,
                                        Append(chunks, Strip(current)),
                                        OverlapSeed(current, overlap) \o <<SP>> \o sentence,
                                        chunk_size, overlap)
             ELSE NarrativeLoopLateTest(sentences, i + 1, chunks,
                                        current \o <<SP>> \o sentence, chunk_size, overlap)

\* The loop of _narrative_raw starting the next chunk with the overlap words
\* alone: current = " ".join(overlap_words).
RECURSIVE NarrativeLoopSeedOnly(_, _, _, _, _, _)
NarrativeLoopSeedOnly(sentences, i, chunks, current, chunk_size, overlap) ==
    IF i > Len(sentences) THEN <<chunks, current>>
    ELSE LET sentence == sentences[i]
         IN  IF Len(current) + Len(sentence) > chunk_size /\ current # <<>>
             THEN NarrativeLoopSeedOnly(sentences, i + 1,
                                        Append(chunks, Strip(current)),
                                        OverlapSeed(current, overlap),
                                        chunk_size, overlap)
             ELSE NarrativeLoopSeedOnly(sentences, i + 1, chunks,
                                        current \o <<SP>> \o sentence, chunk_size, overlap)

\* The state of the loop of _narrative_raw after the sentences i.. are
\* consumed: <<chunks, current>>.
RECURSIVE NarrativeLoop(_, _, _, _, _, _)
NarrativeLoop(sentences, i, chunks, current, chunk_size, overlap) ==
    IF i > Len(sentences) THEN <<chunks, current>>
    ELSE LET sentence == sentences[i]
         IN  IF Len(current) + Len(sentence) > chunk_size /\ current # <<>>
             THEN NarrativeLoop(sentences, i + 1,
                                Append(chunks, Strip(current)),
                                OverlapSeed(current, overlap) \o <<SP>> \o sentence,
                                chunk_size, overlap)
             ELSE NarrativeLoop(sentences, i + 1, chunks,
                                current \o <<SP>> \o sentence, chunk_size, overlap)

\* _narrative_raw without the chunk of what is left in the buffer.
NarrativeRawNoRemainder(text, chunk_size, overlap) ==
    NarrativeLoop(SplitSentences(text), 1, <<>>, <<>>, chunk_size, overlap)[1]

\* SmartChunker._narrative_raw: the sentence chunks of text, as strings.
NarrativeRaw(text, chunk_size, overlap) ==
    LET final   == NarrativeLoop(SplitSentences(text), 1, <<>>, <<>>, chunk_size, overlap)
        chunks  == final[1]
        current == final[2]
    IN  IF Strip(current) # <<>> THEN Append(chunks, Strip(current)) ELSE chunks

\* ------------------------------------------------------ glossary strategies

\* The tuple definition_starters of _is_term_line.
DefinitionStarters ==
    {
      <<"l", "e", " ">>,
      <<"l", "a", " ">>,
      <<"l", "e", "s", " ">>,
      <<"u", "n", " ">>,
      <<"u", "n", "e", " ">>,
      <<"d", "e", "s", " ">>,
      <<"i", "l", " ">>,
      <<"e", "l", "l", "e", " ">>,
      <<"o", "n", " ">>,
      <<"c", "e", " ">>,
      <<"c", "e", "t", "t", "e", " ">>,
      <<"c", "e", "s", " ">>,
      <<"t", "o", "u", "t", "e", " ">>,
      <<"t", "o", "u", "t", " ">>,
      <<"d", "a", "n", "s", " ">>,
      <<"l", "o", "r", "s", "q", "u", "e", " ">>,
      <<"s", "e", " ", "d", "i", "t">>,
      <<"c", "o", "r", "r", "e", "s", "p", "o", "n", "d">>,
      <<"d", "<e9>", "s", "i", "g", "n", "e", " ">>,
      <<"s", "o", "n", "t", " ">>,
      <<"p", "e", "r", "m", "e", "t", " ">>,
      <<"c", "'", "e", "s", "t", " ">>,
      <<"c", "<2bc>", "e", "s", "t", " ">>,
      <<"e", "n", " ">>,
      <<"p", "a", "r", " ">>,
      <<"p", "o", "u", "r", " ">>,
      <<"s", "e", "l", "o", "n", " ">>,
      <<"d", "o", "n", "t", " ">>,
      <<"q", "u", "i", " ">>,
      <<"q", "u", "e", " ">>,
      <<"l", "<2bc>">>,
      <<"l", "'">> }

\* SmartChunker._is_term_line
IsTermLine(line) ==
    IF line = <<>> \/ Len(line) > 100 THEN FALSE
    ELSE IF \E st \in DefinitionStarters : StartsWith(PyLower(line), st) THEN FALSE
    ELSE IF EndsWith(line, <<".">>) /\ Len(line) > 30 THEN FALSE
    ELSE IF Contains(line, ",") /\ Len(line) > 60 THEN FALSE
    ELSE TRUE

\* The type _make_glossary_chunk gives its chunks.
GlossaryChunkType == "narrative"

\* SmartChunker._make_glossary_chunk: definition is a list of strings.
MakeGlossaryChunk(term, definition) ==
    [content  |-> term \o <<LF>> \o PyJoin(<<SP>>, definition),
     metadata |-> [term |-> term, type |-> GlossaryChunkType]]

\* GlossaryNewlineLoop that emits a term also when no definition line
\* followed it.
RECURSIVE GlossaryNewlineLoopAnyTerm(_, _, _, _, _)
GlossaryNewlineLoopAnyTerm(lines, i, chunks, current_term, current_def) ==
    IF i > Len(lines) THEN <<chunks, current_term, current_def>>
    ELSE LET line == lines[i]
         IN  IF line = <<>>
             THEN GlossaryNewlineLoopAnyTerm(lines, i + 1, chunks, current_term, current_def)
             ELSE IF IsTermLine(line)
             THEN GlossaryNewlineLoopAnyTerm(lines, i + 1,
                      IF current_term # "None"
                      THEN Append(chunks, MakeGlossaryChunk(current_term, current_def))
                      ELSE chunks,
                      line, <<>>)
             ELSE GlossaryNewlineLoopAnyTerm(lines, i + 1, chunks, current_term,
                                             Append(current_def, line))

\* The state of the loop of _chunk_glossary_newline after the lines i.. are
\* consumed: <<chunks, current_term, current_def>>; "None" is Python's None.
RECURSIVE GlossaryNewlineLoop(_, _, _, _, _)
GlossaryNewlineLoop(lines, i, chunks, current_term, current_def) ==
    IF i > Len(lines) THEN <<chunks, current_term, current_def>>
    ELSE LET line == lines[i]
         IN  IF line = <<>>
             THEN GlossaryNewlineLoop(lines, i + 1, chunks, current_term, current_def)
             ELSE IF IsTermLine(line)
             THEN GlossaryNewlineLoop(lines, i + 1,
                      IF current_term # "None" /\ current_term # <<>> /\ current_def # <<>>
                      THEN Append(chunks, MakeGlossaryChunk(current_term, current_def))
                      ELSE chunks,
                      line, <<>>)
             ELSE GlossaryNewlineLoop(lines, i + 1, chunks, current_term,
                                      Append(current_def, line))

\* SmartChunker._chunk_glossary_newline
ChunkGlossaryNewline(text) ==
    LET split == SplitLines(text)
        lines == [k \in 1..Len(split) |-> Strip(split[k])]
        final == GlossaryNewlineLoop(lines, 1, <<>>, "None", <<>>)
        chunks       == final[1]
        current_term == final[2]
        current_def  == final[3]
    IN  IF current_term # "None" /\ current_term # <<>> /\ current_def # <<>>
        THEN Append(chunks, MakeGlossaryChunk(current_term, current_def))
        ELSE chunks

\* ColonMatch with a label of 2 to 60 characters.
ColonMatchShortLabel(line) ==
    LET colons == {i \in 1..Len(line) : line[i] = ":"}
    IN  IF colons = {} THEN "None"
        ELSE LET c == CHOOSE i \in colons : \A j \in colons : i <= j
             IN  IF c < 3 \/ c > 61 \/ c >= Len(line) THEN "None"
                 ELSE IF ~IsWs(line[c + 1]) THEN "None"
                 ELSE LET e == WsRunEnd(line, c + 1)
                      IN  IF e >= Len(line) THEN "None"
                          ELSE <<SubSeq(line, 1, c - 1), SubSeq(line, e + 1, Len(line))>>

\* re.match(r'^([^:]{3,60}):\s+(.+)', line) on a stripped line of
\* text.split("\n"): the groups <<group(1), group(2)>>, or "None".
\* [^:]{3,60} ends at the first colon, which is the 4th to 61st character;
\* the line ends with no whitespace and holds no line break, so \s+ is the
\* whole run of whitespace after the colon and (.+) the rest of the line.
ColonMatch(line) ==
    LET colons == {i \in 1..Len(line) : line[i] = ":"}
    IN  IF colons = {} THEN "None"
        ELSE LET c == CHOOSE i \in colons : \A j \in colons : i <= j
             IN  IF c < 4 \/ c > 61 \/ c >= Len(line) THEN "None"
                 ELSE IF ~IsWs(line[c + 1]) THEN "None"
                 ELSE LET e == WsRunEnd(line, c + 1)
                      IN  IF e >= Len(line) THEN "None"
                          ELSE <<SubSeq(line, 1, c - 1), SubSeq(line, e + 1, Len(line))>>

\* SmartChunker._chunk_glossary_colon
ChunkGlossaryColon(text) ==
    LET split   == SplitLines(text)
        matches == [k \in 1..Len(split) |-> ColonMatch(Strip(split[k]))]
        hits    == SortedSeq({k \in 1..Len(split) : matches[k] # "None"}, 1, Len(split))
    IN  [k \in 1..Len(hits) |->
            MakeGlossaryChunk(matches[hits[k]][1], <<matches[hits[k]][2]>>)]

\* [A-Z<c0>-<178>a-z<e0>-<ff>/\-()\']: the characters of group 1 of the
\* pattern of _chunk_glossary_inline.
ReInlineRun(c) == ReUpperAcc(c) \/ ReLowerAcc(c) \/ c \in {"/", "-", "(", ")", "'"}

\* The places where re.sub of _chunk_glossary_inline inserts a line break,
\* scanning from p: the set of the indexes j where a group 2 starts.  The
\* leftmost match starts where the run of group-1 characters before the first
\* candidate starts; group 1 is greedy, so group 2 is the last candidate of
\* that run; the scan goes on after group 2.
RECURSIVE InlineBreaks(_, _)
InlineBreaks(s, p) ==
    LET n    == Len(s)
        cand == {j \in (p + 3)..(n - 1) :
                    /\ ReUpperAcc(s[j]) /\ ReLowerAcc(s[j + 1])
                    /\ \A k \in (j - 3)..(j - 1) : ReInlineRun(s[k])}
    IN  IF cand = {} THEN {}
        ELSE LET j0 == CHOOSE j \in cand : \A k \in cand : j <= k
                 same == {j \in cand : \A k \in j0..(j - 1) : ReInlineRun(s[k])}
                 j1 == CHOOSE j \in same : \A k \in same : j >= k
             IN  {j1} \cup InlineBreaks(s, j1 + 2)

\* s cut before each index of the set cuts (indexes 1..Len(s)).
CutBefore(s, cuts) ==
    LET at == SortedSeq(cuts, 1, Len(s))
        m  == Len(at)
    IN  [k \in 1..(m + 1) |->
            SubSeq(s, IF k = 1 THEN 1 ELSE at[k - 1],
                      IF k = m + 1 THEN Len(s) ELSE at[k] - 1)]

\* SmartChunker._chunk_glossary_inline
ChunkGlossaryInline(text) ==
    ChunkGlossaryNewline(PyJoin(<<LF>>, CutBefore(text, InlineBreaks(text, 1))))

\* ------------------------------------------------------- sectioned strategy

\* The lookahead of the pattern of _chunk_sectioned at index i of s:
\* (?m)^ then the bullet and whitespace, or one to three '#' and whitespace,
\* or a capital and five or more capitals or whitespace up to an end of line.
SectionHeaderAt(s, i) ==
    LET n == Len(s)
    IN  /\ (i = 1 \/ s[i - 1] = LF)
        /\ \/ s[i] = BULLET /\ i + 1 <= n /\ IsWs(s[i + 1])
           \/ \E k \in 1..3 : /\ i + k <= n
                              /\ \A h \in i..(i + k - 1) : s[h] = "#"
                              /\ IsWs(s[i + k])
           \/ /\ ReSectionUpper(s[i])
              /\ \E e \in (i + 5)..n :
                    /\ \A h \in (i + 1)..e : ReSectionUpper(s[h]) \/ IsWs(s[h])
                    /\ (e = n \/ s[e + 1] = LF)

\* The overlap _chunk_sectioned passes to _narrative_raw: none, so its default.
SectionOverlap == 80

\* _chunk_sectioned with the size test len(section) >= chunk_size.
RECURSIVE SectionChunksAtSize(_, _, _)
SectionChunksAtSize(sections, k, chunk_size) ==
    IF k > Len(sections) THEN <<>>
    ELSE LET section == Strip(sections[k])
             rest    == SectionChunksAtSize(sections, k + 1, chunk_size)
         IN  IF section = <<>> THEN rest
             ELSE IF Len(section) >= chunk_size
             THEN LET subs == NarrativeRaw(section, chunk_size, SectionOverlap)
                  IN  [j \in 1..Len(subs) |->
                          [content |-> subs[j], metadata |-> [type |-> "narrative"]]] \o rest
             ELSE <<[content |-> section, metadata |-> [type |-> "section"]]>> \o rest

\* The chunks of _chunk_sectioned for the sections k.. of the split.
RECURSIVE SectionChunks(_, _, _)
SectionChunks(sections, k, chunk_size) ==
    IF k > Len(sections) THEN <<>>
    ELSE LET section == Strip(sections[k])
             rest    == SectionChunks(sections, k + 1, chunk_size)
         IN  IF section = <<>> THEN rest
             ELSE IF Len(section) > chunk_size
             THEN LET subs == NarrativeRaw(section, chunk_size, SectionOverlap)
                  IN  [j \in 1..Len(subs) |->
                          [content |-> subs[j], metadata |-> [type |-> "narrative"]]] \o rest
             ELSE <<[content |-> section, metadata |-> [type |-> "section"]]>> \o rest

\* SmartChunker._chunk_sectioned: pattern.split cuts the text before every
\* header (an empty match splits too, since Python 3.7).
ChunkSectioned(text, chunk_size) ==
    SectionChunks(CutBefore(text, {i \in 1..Len(text) : SectionHeaderAt(text, i)}),
                  1, chunk_size)

\* SmartChunker._chunk_narrative
ChunkNarrative(text, chunk_size, overlap) ==
    LET raw == NarrativeRaw(text, chunk_size, overlap)
    IN  [k \in 1..Len(raw) |-> [content |-> raw[k], metadata |-> [type |-> "narrative"]]]

\* --------------------------------------------------------- format detection

\* The values of the enum DocumentFormat; "None" is no forced format.
GLOSSARY_NEWLINE == "glossary_newline"
GLOSSARY_COLON   == "glossary_colon"
GLOSSARY_INLINE  == "glossary_inline"
NARRATIVE        == "narrative"
SECTIONED        == "sectioned"
DocumentFormat ==
    {GLOSSARY_NEWLINE, GLOSSARY_COLON, GLOSSARY_INLINE, NARRATIVE, SECTIONED}

\* text[:5000]
SampleSize == 5000

\* The non-empty stripped lines of the sample.
SampleLines(text) ==
    LET split == SplitLines(PyUpTo(text, SampleSize))
        kept  == SortedSeq({k \in 1..Len(split) : Strip(split[k]) # <<>>}, 1, Len(split))
    IN  [k \in 1..Len(kept) |-> Strip(split[kept[k]])]

\* len(line) < 80 and i + 1 < total and len(lines[i + 1]) > 80, i from 1.
ShortFollowedByLong(lines, i) ==
    Len(lines[i]) < 80 /\ i + 1 <= Len(lines) /\ Len(lines[i + 1]) > 80

\* re.match(r'^[^:]{3,60}:\s+[A-Z<c0>-<178>]', line)
ColonPattern(line) ==
    LET colons == {i \in 1..Len(line) : line[i] = ":"}
    IN  /\ colons # {}
        /\ LET c == CHOOSE i \in colons : \A j \in colons : i <= j
           IN  /\ c >= 4 /\ c <= 61 /\ c < Len(line)
               /\ IsWs(line[c + 1])
               /\ LET e == WsRunEnd(line, c + 1)
                  IN  e < Len(line) /\ ReUpperAcc(line[e + 1])

\* re.match(r'^(<203a>|#{1,3}\s|[A-Z...\s]{6,}$)', line)
SectionMarker(line) ==
    LET n == Len(line)
    IN  /\ n >= 1
        /\ \/ line[1] = BULLET
           \/ \E k \in 1..3 : /\ k + 1 <= n
                              /\ \A h \in 1..k : line[h] = "#"
                              /\ IsWs(line[k + 1])
           \/ /\ n >= 6
              /\ \A h \in 1..n : ReSectionUpper(line[h]) \/ IsWs(line[h])

\* re.search(r'[a-z<e0>-<ff>]{3,}[A-Z<c0>-<178>][a-z<e0>-<ff>]', line)
InlineGlued(line) ==
    \E j \in 4..(Len(line) - 1) :
        /\ \A k \in (j - 3)..(j - 1) : ReLowerAcc(line[k])
        /\ ReUpperAcc(line[j])
        /\ ReLowerAcc(line[j + 1])

\* The four counters of detect_format, by format.
FormatCounts(lines) ==
    [f \in {GLOSSARY_NEWLINE, GLOSSARY_COLON, GLOSSARY_INLINE, SECTIONED} |->
        IF f = GLOSSARY_NEWLINE
        THEN Cardinality({i \in 1..Len(lines) : ShortFollowedByLong(lines, i)})
        ELSE IF f = GLOSSARY_COLON
        THEN Cardinality({i \in 1..Len(lines) : ColonPattern(lines[i])})
        ELSE IF f = GLOSSARY_INLINE
        THEN Cardinality({i \in 1..Len(lines) : InlineGlued(lines[i])})
        ELSE Cardinality({i \in 1..Len(lines) : SectionMarker(lines[i])})]

\* The keys of the dict scores, in insertion order.
ScoreOrder == <<GLOSSARY_NEWLINE, GLOSSARY_COLON, GLOSSARY_INLINE, SECTIONED>>

\* max(scores, key=scores.get): the first key, in insertion order, with the
\* greatest score.  The scores share the denominator total: the counts decide.
BestFormat(counts) ==
    ScoreOrder[CHOOSE i \in 1..4 :
                  /\ \A j \in 1..4 : counts[ScoreOrder[j]] <= counts[ScoreOrder[i]]
                  /\ \A j \in 1..(i - 1) : counts[ScoreOrder[j]] < counts[ScoreOrder[i]]]

\* count / total >= num / den, and count / total < num / den.  The quotients
\* of counts up to SampleSize are never within a rounding error of 0.25, 0.05,
\* 0.50 or 0.04 without being equal to them: the comparison of the floats is
\* the comparison of the fractions.
ScoreAtLeast(count, total, num, den) == count * den >= num * total
ScoreBelow(count, total, num, den) == count * den < num * total

\* The correction with the sectioned signal tried before the newline signal.
InlineOverrideSectionedFirst(counts, total) ==
    IF ScoreAtLeast(counts[SECTIONED], total, 5, 100) THEN SECTIONED
    ELSE IF ScoreAtLeast(counts[GLOSSARY_NEWLINE], total, 25, 100) THEN GLOSSARY_NEWLINE
    ELSE IF ScoreBelow(counts[GLOSSARY_INLINE], total, 50, 100) THEN NARRATIVE
    ELSE GLOSSARY_INLINE

\* The correction of a GLOSSARY_INLINE winner.
InlineOverride(counts, total) ==
    IF ScoreAtLeast(counts[GLOSSARY_NEWLINE], total, 25, 100) THEN GLOSSARY_NEWLINE
    ELSE IF ScoreAtLeast(counts[SECTIONED], total, 5, 100) THEN SECTIONED
    ELSE IF ScoreBelow(counts[GLOSSARY_INLINE], total, 50, 100) THEN NARRATIVE
    ELSE GLOSSARY_INLINE

\* The early return never taken.
EmptySampleIgnored(total) == FALSE

\* if total == 0
EmptySample(total) == total = 0

\* The last test left out: the format is kept whatever its score.
FinalGuardOff(best, counts, total) == best

\* if best in scores and scores[best] < 0.04: best = NARRATIVE
FinalGuard(best, counts, total) ==
    IF best \in DOMAIN counts /\ ScoreBelow(counts[best], total, 4, 100)
    THEN NARRATIVE
    ELSE best

\* SmartChunker.detect_format.  The scores are count / total: computing them
\* with a total of 0 raises ZeroDivisionError.
DetectFormat(text) ==
    LET lines == SampleLines(text)
        total == Len(lines)
    IN  IF EmptySample(total) THEN NARRATIVE
        ELSE IF total = 0 THEN "ZeroDivisionError"
        ELSE LET counts == FormatCounts(lines)
                 raw    == BestFormat(counts)
                 best   == IF raw = GLOSSARY_INLINE THEN InlineOverride(counts, total)
                           ELSE raw
             IN  FinalGuard(best, counts, total)

\* ------------------------------------------------------------ coordinator

\* The default arguments of chunk().
DefaultChunkSize == 600
DefaultOverlap   == 80

\* dispatch[fmt](text)
\* _chunk_sectioned handing the overlap of the caller to _narrative_raw.
RECURSIVE SectionChunksOverlapping(_, _, _, _)
SectionChunksOverlapping(sections, k, chunk_size, overlap) ==
    IF k > Len(sections) THEN <<>>
    ELSE LET section == Strip(sections[k])
             rest    == SectionChunksOverlapping(sections, k + 1, chunk_size, overlap)
         IN  IF section = <<>> THEN rest
             ELSE IF Len(section) > chunk_size
             THEN LET subs == NarrativeRaw(section, chunk_size, overlap)
                  IN  [j \in 1..Len(subs) |->
                          [content |-> subs[j], metadata |-> [type |-> "narrative"]]] \o rest
             ELSE <<[content |-> section, metadata |-> [type |-> "section"]]>> \o rest

\* The dispatch with the sectioned entry lambda t: self._chunk_sectioned(t,
\* chunk_size, overlap).
DispatchPassingOverlap(fmt, text, chunk_size, overlap) ==
    CASE fmt = GLOSSARY_NEWLINE -> ChunkGlossaryNewline(text)
      [] fmt = GLOSSARY_COLON   -> ChunkGlossaryColon(text)
      [] fmt = GLOSSARY_INLINE  -> ChunkGlossaryInline(text)
      [] fmt = SECTIONED        ->
            SectionChunksOverlapping(
                CutBefore(text, {i \in 1..Len(text) : SectionHeaderAt(text, i)}),
                1, chunk_size, overlap)
      [] fmt = NARRATIVE        -> ChunkNarrative(text, chunk_size, overlap)

Dispatch(fmt, text, chunk_size, overlap) ==
    CASE fmt = GLOSSARY_NEWLINE -> ChunkGlossaryNewline(text)
      [] fmt = GLOSSARY_COLON   -> ChunkGlossaryColon(text)
      [] fmt = GLOSSARY_INLINE  -> ChunkGlossaryInline(text)
      [] fmt = SECTIONED        -> ChunkSectioned(text, chunk_size)
      [] fmt = NARRATIVE        -> ChunkNarrative(text, chunk_size, overlap)

\* KeptType with the two tags exchanged.
KeptTypeExchanged(type) == IF type = "narrative" THEN "glossaire" ELSE type

\* The type a chunk keeps: 'glossaire' is overwritten.
KeptType(type) == IF type = "glossaire" THEN "narrative" ELSE type

\* The metadata of a chunk after the loop of chunk().
PostProcess(metadata, source, fmt) ==
    [k \in DOMAIN metadata \cup {"source", "format"} |->
        IF k = "source" THEN source
        ELSE IF k = "format" THEN fmt
        ELSE IF k = "type" THEN KeptType(metadata[k])
        ELSE metadata[k]]

\* chunk() that classifies the text even when a format is forced.
ChunkAlwaysDetects(text, source, force_format, chunk_size, overlap) ==
    LET fmt    == DetectFormat(text)
        chunks == Dispatch(fmt, text, chunk_size, overlap)
    IN  [k \in 1..Len(chunks) |->
            [content  |-> chunks[k].content,
             metadata |-> PostProcess(chunks[k].metadata, source, fmt)]]

\* SmartChunker.chunk
Chunk(text, source, force_format, chunk_size, overlap) ==
    LET fmt    == IF force_format # "None" THEN force_format ELSE DetectFormat(text)
        chunks == Dispatch(fmt, text, chunk_size, overlap)
    IN  [k \in 1..Len(chunks) |->
            [content  |-> chunks[k].content,
             metadata |-> PostProcess(chunks[k].metadata, source, fmt)]]

\* ------------------------------------------------------ PDF text normalizer

\* The characters of s at the positions of the set keep, in order.
KeepAt(s, keep) ==
    LET idx == SortedSeq(keep, 1, Len(s))
    IN  [k \in 1..Len(idx) |-> s[idx[k]]]

\* The first position from i on whose character is not in the set S,
\* Len(s) + 1 when the run reaches the end.
RunEnd(s, i, S) ==
    CHOOSE j \in i..(Len(s) + 1) :
        /\ \A k \in i..(j - 1) : s[k] \in S
        /\ (j = Len(s) + 1 \/ s[j] \notin S)

\* [a-zA-Z] and the accented letters of the first two rules, of which the
\* model has U+00E9.
AsciiLetter(c) == c \in AsciiLower \cup AsciiUpper
Accented(c) == c = EACUTE

\* re.sub(r'([a-zA-Z])\n([accented])', r'\1\2', text): the line break between
\* a letter and an accented letter goes.  (Two matches never overlap: the
\* third character of one is accented, the first of the next is not.)
RejoinBeforeAccent(s) ==
    KeepAt(s, {i \in 1..Len(s) :
                 ~(/\ s[i] = LF
                   /\ i > 1 /\ i < Len(s)
                   /\ AsciiLetter(s[i - 1])
                   /\ Accented(s[i + 1]))})

\* re.sub(r'([accented])\n([a-z])', r'\1\2', text)
RejoinAfterAccent(s) ==
    KeepAt(s, {i \in 1..Len(s) :
                 ~(/\ s[i] = LF
                   /\ i > 1 /\ i < Len(s)
                   /\ Accented(s[i - 1])
                   /\ s[i + 1] \in AsciiLower)})

\* re.sub(r'-\n([a-zà-ÿ])', r'\1', text): the hyphen and the line
\* break before a lower-case letter go.
HyphenBreaks(s) ==
    {i \in 1..(Len(s) - 2) : s[i] = "-" /\ s[i + 1] = LF /\ ReLowerAcc(s[i + 2])}

RejoinHyphen(s) ==
    LET breaks == HyphenBreaks(s)
    IN  KeepAt(s, {i \in 1..Len(s) : i \notin breaks /\ (i - 1) \notin breaks})

\* The letters before which U+02BC is replaced by an apostrophe.
ElisionLetters == {"l", "d", "s", "n", "c", "j", "m", "t"}

\* The apostrophes of both chains of str.replace: U+2019 becomes an
\* apostrophe, and so does U+02BC after one of the elision letters.
NormalizeApostrophes(s) ==
    [i \in 1..Len(s) |->
        IF s[i] = RSQUO THEN "'"
        ELSE IF s[i] = MODAPOS /\ i > 1 /\ s[i - 1] \in ElisionLetters THEN "'"
        ELSE s[i]]

\* The chain of str.replace of _clean_pdf_text: the apostrophes, and U+201C
\* and U+201D become the straight double quote.
NormalizeQuotes(s) ==
    [i \in 1..Len(s) |->
        IF s[i] = RSQUO THEN "'"
        ELSE IF s[i] \in {LDQUO, RDQUO} THEN "\""
        ELSE IF s[i] = MODAPOS /\ i > 1 /\ s[i - 1] \in ElisionLetters THEN "'"
        ELSE s[i]]

\* re.sub(r'[\x00-\x08\x0b\x0c\x0e-\x1f\x7f]', '', text); of these the model
\* has NUL.
StripControl(s) == KeepAt(s, {i \in 1..Len(s) : s[i] # NUL})

\* re.sub(r' {2,}', ' ', text)
CollapseSpaces(s) ==
    KeepAt(s, {i \in 1..Len(s) : ~(s[i] = SP /\ i > 1 /\ s[i - 1] = SP)})

\* Where the match of ^\s*\d{1,3}\s*$ (MULTILINE) that starts at i ends (the
\* position after it), 0 when there is no match at i.  The match starts at
\* the start of a line, takes the whole run of whitespace (line breaks
\* included), one to three digits that are the whole run of digits, and of
\* the whitespace that follows as much as ends before a line break or at the
\* end of the text.
PageNumberEnd(s, i) ==
    LET n    == Len(s)
        w    == RunEnd(s, i, Whitespace)
        d    == RunEnd(s, w, Digits)
        t    == RunEnd(s, d, Whitespace)
        ends == {e \in d..t : e = n + 1 \/ s[e] = LF}
    IN  IF (i = 1 \/ s[i - 1] = LF) /\ (d - w) \in 1..3 /\ ends # {}
        THEN CHOOSE e \in ends : \A f \in ends : f <= e
        ELSE 0

\* re.sub(r'^\s*\d{1,3}\s*$', '', text, flags=re.MULTILINE) from position p
\* on: the leftmost match goes, and the search goes on after it.
RECURSIVE DropPageNumbers(_, _)
DropPageNumbers(s, p) ==
    LET starts == {i \in p..Len(s) : PageNumberEnd(s, i) > 0}
    IN  IF starts = {} THEN SubSeq(s, p, Len(s))
        ELSE LET i == CHOOSE j \in starts : \A k \in starts : j <= k
             IN  SubSeq(s, p, i - 1) \o DropPageNumbers(s, PageNumberEnd(s, i))

\* re.sub(r'\n{3,}', '\n\n', text): of a run of line breaks the first two
\* stay.
CollapseNewlines(s) ==
    KeepAt(s, {i \in 1..Len(s) :
                 ~(s[i] = LF /\ i > 2 /\ s[i - 1] = LF /\ s[i - 2] = LF)})

\* DocumentLoader._clean_pdf_text
CleanPdfText(text) ==
    LET rejoined == RejoinHyphen(RejoinAfterAccent(RejoinBeforeAccent(text)))
        quoted   == NormalizeQuotes(rejoined)
        visible  == StripControl(quoted)
        spaced   == CollapseSpaces(visible)
        unpaged  == DropPageNumbers(spaced, 1)
    IN  Strip(CollapseNewlines(unpaged))

\* clean_pdf_text of debug_chunks.py: the steps of _clean_pdf_text with the
\* apostrophes of the chain only (no replacement of U+201C and U+201D).
DebugCleanPdfText(text) ==
    LET rejoined == RejoinHyphen(RejoinAfterAccent(RejoinBeforeAccent(text)))
        quoted   == NormalizeApostrophes(rejoined)
        visible  == StripControl(quoted)
        spaced   == CollapseSpaces(visible)
        unpaged  == DropPageNumbers(spaced, 1)
    IN  Strip(CollapseNewlines(unpaged))

\* ------------------------------------------------------------------ retrieval

\* Distances, similarities and thresholds are counted in tenths: 10 is the
\* 1.0 of "similarity = 1.0 - cosine_distance".
One == 10

\* The chunk the store ranks at position i for the query: its text, its
\* metadata and its id.
StoredDocument(i) == <<"text", i>>
StoredMetadata(i) ==
    [type   |-> IF i % 2 = 1 THEN "glossaire" ELSE "narrative",
     source |-> IF i % 3 = 0 THEN "glossaire.xlsx" ELSE "guide.pdf"]
StoredId(i) == <<"chunk", i>>

\* LocalVectorStore.query(query_embedding, top_k): the top_k nearest chunks
\* of the collection, nearest first, as the one row of each list of the
\* response.  ranked is the sequence of the distances of the stored chunks
\* to the query, in the store's ranking.
StoreQuery(ranked, top_k) ==
    LET n == Min2(top_k, Len(ranked))
    IN  [documents |-> << [i \in 1..n |-> StoredDocument(i)] >>,
         distances |-> << [i \in 1..n |-> ranked[i]] >>,
         metadatas |-> << [i \in 1..n |-> StoredMetadata(i)] >>,
         ids       |-> << [i \in 1..n |-> StoredId(i)] >>]

\* Similarity as the reciprocal 1 / (1 + distance), in tenths.
SimilarityReciprocal(cosine_distance) == (One * One) \div (One + cosine_distance)

\* similarity = 1.0 - cosine_distance
Similarity(cosine_distance) == One - cosine_distance

\* The threshold test the wrong way round.
PassesBelow(similarity, similarity_threshold) == similarity <= similarity_threshold

\* The threshold test that refuses the threshold itself.
PassesAbove(similarity, similarity_threshold) == similarity > similarity_threshold

\* if similarity >= self.similarity_threshold
Passes(similarity, similarity_threshold) == similarity >= similarity_threshold

\* The cut at the number of candidates fetched.
LimitToFetched(docs, top_k) == PyUpTo(docs, top_k * 2)

\* retrieved_docs[:self.top_k]
LimitToTopK(docs, top_k) == PyUpTo(docs, top_k)

\* fetch_k = self.top_k * 2
FetchK(top_k) == top_k * 2

\* The loop with the document taken from the other end of the response
\* instead of the index of the candidate.
RetrievedFromMisaligned(results, top_k, similarity_threshold) ==
    LET n    == Len(results.documents[1])
        kept == SortedSeq({i \in 1..n :
                              Passes(Similarity(results.distances[1][i]),
                                     similarity_threshold)}, 1, n)
        retrieved_docs ==
            [k \in 1..Len(kept) |->
                [content  |-> results.documents[1][n + 1 - kept[k]],
                 metadata |-> results.metadatas[1][kept[k]],
                 score    |-> Similarity(results.distances[1][kept[k]]),
                 id       |-> results.ids[1][kept[k]]]]
    IN  LimitToTopK(retrieved_docs, top_k)

\* The loop of retrieve over the candidates of the response, then the cut:
\* the candidates that pass the threshold, in the order of the response, each
\* with the document, the metadata and the id of its own index.
RetrievedFrom(results, top_k, similarity_threshold) ==
    LET n    == Len(results.documents[1])
        kept == SortedSeq({i \in 1..n :
                              Passes(Similarity(results.distances[1][i]),
                                     similarity_threshold)}, 1, n)
        retrieved_docs ==
            [k \in 1..Len(kept) |->
                [content  |-> results.documents[1][kept[k]],
                 metadata |-> results.metadatas[1][kept[k]],
                 score    |-> Similarity(results.distances[1][kept[k]]),
                 id       |-> results.ids[1][kept[k]]]]
    IN  LimitToTopK(retrieved_docs, top_k)

\* What the embedding call and the store may do during one call.
Faults == {"None", "EmbeddingError", "StoreError"}

\* retrieve with the exceptions of its collaborators caught: an empty list
\* is returned.
RetrieveOutcomeSwallowing(fault, ranked, top_k, similarity_threshold) ==
    IF fault # "None"
    THEN [pc |-> "returned", error |-> "None",
          results |-> StoreQuery(<<>>, FetchK(top_k)), docs |-> <<>>]
    ELSE LET results == StoreQuery(ranked, FetchK(top_k))
         IN  [pc |-> "returned", error |-> "None", results |-> results,
              docs |-> RetrievedFrom(results, top_k, similarity_threshold)]

\* How one call of retrieve ends.  Neither self.embeddings.embed_query(query)
\* nor self.vector_store.query(...) is inside a try: what they raise ends
\* the call.
RetrieveOutcome(fault, ranked, top_k, similarity_threshold) ==
    IF fault # "None"
    THEN [pc |-> "raised", error |-> fault, results |-> "None", docs |-> "None"]
    ELSE LET results == StoreQuery(ranked, FetchK(top_k))
         IN  [pc |-> "returned", error |-> "None", results |-> results,
              docs |-> RetrievedFrom(results, top_k, similarity_threshold)]

\* ------------------------------------------------------------------ indexing

\* The value pandas gives an empty cell.
NaN == <<"<NaN>">>

\* str(cell).strip() if pd.notna(cell) else ""
CellText(cell) == IF cell = NaN THEN <<>> ELSE Strip(cell)

\* The terms that are not entries: the text of a missing value, the header
\* of the column and the header of the numbering.
SkippedTerms == {<<"n", "a", "n">>, <<"t", "e", "r", "m", "e">>, <<"n", "<b0>">>}

\* not terme or not definition or terme.lower() in ("nan", "terme", "n<b0>")
RowSkipped(row) ==
    \/ CellText(row.terme) = <<>>
    \/ CellText(row.definition) = <<>>
    \/ PyLower(CellText(row.terme)) \in SkippedTerms

\* The entry load_glossary_xlsx makes of a row it keeps.
GlossaryEntry(row, name) ==
    [content  |-> CellText(row.terme) \o <<LF>> \o CellText(row.definition),
     metadata |-> [term   |-> CellText(row.terme),
                   type   |-> "glossaire",
                   source |-> name,
                   format |-> "xlsx"]]

\* DocumentLoader.load_glossary_xlsx on a workbook: xlsx.readable is FALSE
\* when the file is missing, cannot be read or lacks the two columns;
\* xlsx.rows are its rows and xlsx.name its file name.
LoadGlossaryXlsx(xlsx) ==
    IF ~xlsx.readable THEN <<>>
    ELSE LET kept == SortedSeq({i \in 1..Len(xlsx.rows) : ~RowSkipped(xlsx.rows[i])},
                               1, Len(xlsx.rows))
         IN  [k \in 1..Len(kept) |-> GlossaryEntry(xlsx.rows[kept[k]], xlsx.name)]

\* The metadata the loader gives a PDF document.
PdfMetadata(filename) == [source |-> filename, type |-> "pdf"]

\* {**a, **b}: the keys of both, the values of b where it has the key.
DictMerge(a, b) ==
    [k \in DOMAIN a \cup DOMAIN b |-> IF k \in DOMAIN b THEN b[k] ELSE a[k]]

\* The merge with the metadata of the document laid over that of the chunk.
PdfRecordMetadataDocFirst(doc, chunk, chunk_idx) ==
    DictMerge(DictMerge(chunk.metadata, doc.metadata),
              [chunk_index |-> chunk_idx, doc_name |-> doc.filename])

\* {**doc['metadata'], **chunk['metadata'], "chunk_index": chunk_idx,
\*  "doc_name": doc['filename']}
PdfRecordMetadata(doc, chunk, chunk_idx) ==
    DictMerge(DictMerge(doc.metadata, chunk.metadata),
              [chunk_index |-> chunk_idx, doc_name |-> doc.filename])

\* The records index_documents collects for the glossary entries: content,
\* metadata and id "glossaire_<idx>" of each, idx from 0.
GlossaryRecords(glossary_chunks) ==
    [i \in 1..Len(glossary_chunks) |->
        [content  |-> glossary_chunks[i].content,
         metadata |-> glossary_chunks[i].metadata,
         id       |-> <<"glossaire", i - 1>>]]

\* The records index_documents collects for one document: its chunks, each
\* with the merged metadata and an id of its own.  raw_chunks is the one
\* value chunker.chunk returned.
DocumentRecords(doc, chunk_size, overlap) ==
    CHOOSE records \in
        { [i \in 1..Len(raw_chunks) |->
              [content  |-> raw_chunks[i].content,
               metadata |-> PdfRecordMetadata(doc, raw_chunks[i], i - 1),
               id       |-> <<"uuid", doc.filename, "chunk", i - 1>>]] :
          raw_chunks \in {Chunk(doc.content, doc.filename, "None", chunk_size, overlap)} } :
        TRUE

\* The distance space of a collection created without "hnsw:space" in its
\* metadata, and the one LocalVectorStore.__init__ asks for.
DefaultSpace == "l2"
CosineSpace  == "cosine"

\* No collection of that name in the persist directory.
NoCollection == [exists |-> FALSE, space |-> DefaultSpace, records |-> <<>>]

\* client.get_or_create_collection(name, metadata) with "hnsw:space" set to
\* space: the collection of that name as it is when there is one, else a new
\* empty one in that space.
GetOrCreateCollection(db, space) ==
    IF db.exists THEN db
    ELSE [exists |-> TRUE, space |-> space, records |-> <<>>]

\* LocalVectorStore.__init__: the collection self.collection refers to.
StoreInit(db) == GetOrCreateCollection(db, CosineSpace)

\* What may fail inside clear_collection: the deletion, or the creation that
\* follows it.
ClearFaults == {"None", "DeleteError", "CreateError"}

\* LocalVectorStore.clear_collection: the collection is deleted and created
\* again, with a metadata that names no distance space; an exception of
\* either step is printed and not raised.  The deletion fails when the store
\* fails and when there is no collection of that name, and leaves everything
\* as it was; when the creation fails self.collection is still the deleted
\* collection.
ClearCollection(db, handle, fault) ==
    IF fault = "DeleteError" \/ ~db.exists
    THEN [db |-> db, handle |-> handle, error |-> "None"]
    ELSE IF fault = "CreateError"
    THEN [db |-> NoCollection, handle |-> "stale", error |-> "None"]
    ELSE [db |-> GetOrCreateCollection(NoCollection, DefaultSpace),
          handle |-> "live", error |-> "None"]

\* LocalVectorStore.add_documents: self.collection.add(...), which raises
\* when the store fails, when the collection no longer exists and when
\* there is nothing to add.
AddDocuments(db, handle, records, fault) ==
    IF fault # "None" \/ handle # "live" \/ records = <<>>
    THEN [db |-> db, error |-> "StoreError"]
    ELSE [db |-> [db EXCEPT !.records = @ \o records], error |-> "None"]

\* s[1] \o s[2] \o ... of a sequence of sequences.
RECURSIVE Flatten(_)
Flatten(s) == IF s = <<>> THEN <<>> ELSE Head(s) \o Flatten(Tail(s))

\* What may fail in embed_documents, and in collection.add.  With no text to
\* embed the model is not called and embeddings[0] raises an IndexError.
EmbedFaults == {"None", "EmbeddingError"}
AddFaults   == {"None", "StoreError"}

\* all_chunks, all_metadatas and all_ids of index_documents as one sequence
\* of records: those of the glossary, then those of each document in turn.
CollectedRecords(glossary_chunks, documents, chunk_size, overlap) ==
    GlossaryRecords(glossary_chunks)
    \o Flatten([i \in 1..Len(documents) |->
                  DocumentRecords(documents[i], chunk_size, overlap)])

\* index_documents from the embedding on, with the records it collected: how
\* the call ends (pc, error), the records it handed to add_documents, the
\* failure met while clearing, and the collection and the store object it
\* leaves.
StoreRecords(records, chunked, db, embed_fault, clr_fault, add_fault) ==
    IF embed_fault # "None" \/ records = <<>>
    THEN [pc |-> "raised",
          error |-> IF records = <<>> THEN "IndexError" ELSE embed_fault,
          records |-> records, chunked |-> chunked, added |-> <<>>,
          cleared |-> "None", db |-> db, handle |-> "none"]
    ELSE LET opened == StoreInit(db)
             clear  == ClearCollection(opened, "live", clr_fault)
             add    == AddDocuments(clear.db, clear.handle, records, add_fault)
         IN  [pc |-> IF add.error # "None" THEN "raised" ELSE "returned",
              error |-> add.error, records |-> records, chunked |-> chunked,
              added |-> records, cleared |-> clr_fault,
              db |-> add.db, handle |-> clear.handle]

\* index_documents with what the loader returned (glossary_chunks and
\* documents), the records collected from them and the collection db, under
\* the failures the embedding model and the store meet; chunked is the texts
\* given to the chunker.  With nothing loaded the run returns None before
\* anything is chunked.
IndexDocumentsOutcome(glossary_chunks, documents, records, db, embed_fault, clr_fault, add_fault) ==
    IF documents = <<>> /\ glossary_chunks = <<>>
    THEN [pc |-> "returned_none", error |-> "None", records |-> <<>>,
          chunked |-> <<>>, added |-> <<>>, cleared |-> "None",
          db |-> db, handle |-> "none"]
    ELSE StoreRecords(records, [i \in 1..Len(documents) |-> documents[i].content],
                      db, embed_fault, clr_fault, add_fault)

\* ------------------------------------------------------- inputs of the model

\* The longest text written character by character, the largest chunk_size
\* and overlap tried on those texts, and the most lines of a text built of
\* whole lines.
MaxTextLen   == 7
MaxChunkSize == 4
MaxOverlap   == 2
MaxLines     == 3

RECURSIVE StringsUpTo(_, _)
StringsUpTo(alphabet, n) ==
    IF n = 0 THEN {<<>>}
    ELSE LET shorter == StringsUpTo(alphabet, n - 1)
         IN  shorter \cup {Append(t, c) : t \in {u \in shorter : Len(u) = n - 1}, c \in alphabet}

\* Prose: words, spaces and sentence ends.
ProseTexts == StringsUpTo({"a", SP, "."}, MaxTextLen)

\* c repeated n times.
Repeat(c, n) == [i \in 1..n |-> c]

\* Lines of glossary-like, sectioned and plain documents: an empty line, a
\* term, two definitions, two lines with a colon, glued words, two headers.
LinePalette ==
    { <<>>,
      <<"A", "b">>,
      <<"l", "'", "a">>,
      <<"L", "e", SP, "b", ".">>,
      <<SP, "a", "b", "c", ":", SP, "D", SP>>,
      <<"a", "b", ":", SP, "d">>,
      <<"a", "b", "c", "D", "e">>,
      <<"#", SP, "a">>,
      <<"A", "B", "C", "D", "E", "F">> }

RECURSIVE LineTextsOf(_)
LineTextsOf(n) ==
    IF n = 1 THEN LinePalette
    ELSE LET shorter == LineTextsOf(n - 1)
         IN  shorter \cup {t \o <<LF>> \o l : t \in shorter, l \in LinePalette}

LineTexts == LineTextsOf(MaxLines)

\* Lines at the lengths the code tests: a definition of more than 80
\* characters, a line of more than 100, a line of more than 30 that ends with
\* a full stop, a line of more than 60 with a comma, and labels of 60 and of
\* 61 characters before a colon; each after a term, before one, and between a
\* term and a definition.
LongLines ==
    { <<"u", "n", SP>> \o Repeat("a", 80),
      Repeat("x", 101),
      Repeat("y", 30) \o <<".">>,
      <<",">> \o Repeat("z", 60),
      Repeat("t", 60) \o <<":", SP, "d">>,
      Repeat("t", 61) \o <<":", SP, "d">> }

LongLineTexts ==
    UNION {{ <<"A", "b", LF>> \o l,
             l \o <<LF, "A", "b">>,
             <<"A", "b", LF>> \o l \o <<LF, "l", "'", "a">> } : l \in LongLines}

\* Texts of 1400 characters, each one unit written over and over: sentences
\* of ten one-letter words, of eight five-letter words and of two
\* nine-letter words, words with no sentence end, and a blank text.
ScenarioTextOf(unit) == [i \in 1..1400 |-> unit[((i - 1) % Len(unit)) + 1]]

ScenarioShortWords ==
    ScenarioTextOf(<<"a", SP, "a", SP, "a", SP, "a", SP, "a", SP,
                     "a", SP, "a", SP, "a", SP, "a", SP, "a", ".", SP>>)
ScenarioFiveLetterWords ==
    ScenarioTextOf([i \in 1..49 |->
        IF i = 48 THEN "." ELSE IF i = 49 \/ i % 6 = 0 THEN SP ELSE "a"])
ScenarioNineLetterWords ==
    ScenarioTextOf([i \in 1..21 |-> IF i = 20 THEN "." ELSE IF i \in {10, 21} THEN SP ELSE "a"])
ScenarioNoSentenceEnd ==
    ScenarioTextOf(<<"a", "a", "a", "a", "a", SP>>)
ScenarioBlank == ScenarioTextOf(<<SP>>)

ScenarioTexts ==
    {ScenarioShortWords, ScenarioFiveLetterWords, ScenarioNineLetterWords,
     ScenarioNoSentenceEnd, ScenarioBlank}

\* The longest text of glued words, and those texts: lower-case and
\* upper-case letters with no separator.
MaxGluedLen == 7
GluedTexts == StringsUpTo({"a", "B"}, MaxGluedLen)

\* Sectioned documents: up to MaxLines lines, each a blank line, a line of
\* text, a header, a header with one sentence or a header with two.
SectionPalette ==
    { <<SP>>,
      <<"a">>,
      <<"#", SP, "a">>,
      <<"#", SP, "a", ".">>,
      <<"#", SP, "a", ".", SP, "a", ".">> }
SectionedTexts ==
    {PyJoin(<<LF>>, ls) : ls \in UNION {[1..n -> SectionPalette] : n \in 1..MaxLines}}

ChunkInputs ==
    [text : SectionedTexts, source : {"sections.pdf"},
     force_format : {SECTIONED},
     chunk_size : 2..MaxChunkSize, overlap : 0..MaxOverlap]
    \cup
    [text : GluedTexts, source : {"glued.pdf"},
     force_format : {GLOSSARY_INLINE},
     chunk_size : {DefaultChunkSize}, overlap : {DefaultOverlap}]
    \cup
    [text : ScenarioTexts, source : {"scenario.pdf"},
     force_format : {NARRATIVE},
     chunk_size : {DefaultChunkSize}, overlap : {DefaultOverlap}]
    \cup
    [text : ProseTexts, source : {"prose.pdf"},
     force_format : {NARRATIVE},
     chunk_size : 2..MaxChunkSize, overlap : 0..MaxOverlap]
    \cup
    [text : LineTexts \cup LongLineTexts, source : {"lines.pdf"},
     force_format : DocumentFormat \cup {"None"},
     chunk_size : {DefaultChunkSize}, overlap : {DefaultOverlap}]

\* The most chunks in the store, the largest top_k, and the most calls of
\* retrieve on one store and one query.
MaxDocs  == 4
MaxTopK  == 2
MaxCalls == 2

\* Distances (0.1, 0.3, 0.5, 0.6, 0.9 and 1.2) and thresholds (0.4, 0.5 and
\* 0.8), in tenths.
DistanceValues == {1, 3, 5, 6, 9, 12}
Thresholds == {4, 5, 8}

\* The store answers nearest first: the rankings are the sequences of
\* distances that never decrease.
Rankings ==
    {r \in UNION {[1..n -> DistanceValues] : n \in 0..MaxDocs} :
        \A i \in 1..(Len(r) - 1) : r[i] <= r[i + 1]}

\* The longest raw text given to the normalizer and the most times it is
\* run on its own output.
MaxRawLen == 3
MaxPasses == 2

\* Raw text of a PDF: letters, an accented letter, line breaks, the NUL the
\* extraction leaves, hyphens, spaces, digits and the apostrophes.
RawTexts ==
    StringsUpTo({"a", "l", EACUTE, LF, NUL, "-", SP, "1", MODAPOS, RSQUO}, MaxRawLen)

\* The most lines that open a sample for detect_format, the fewest and the
\* most plain lines that may follow them, and the longest blank text.
MaxMarkedLines == 3
MinPlainLines  == 16
MaxPlainLines  == 26
MaxBlankLen    == 3

\* Lines for detect_format: a plain line, glued words, a header, a label with
\* its definition, and two lines of more than 80 characters, the second with
\* glued words.
PlainLine == <<"a", "b", SP, "c">>
DetectPalette ==
    { PlainLine,
      <<"a", "b", "c", "D", "e">>,
      <<"#", SP, "a">>,
      <<"a", "b", "c", ":", SP, "D">>,
      Repeat("x", 81),
      <<"a", "b", "c", "D", "e">> \o Repeat("x", 81) }

\* The sequences of at most n lines of the palette.
RECURSIVE MarkedLinesUpTo(_)
MarkedLinesUpTo(n) ==
    IF n = 0 THEN {<<>>}
    ELSE LET shorter == MarkedLinesUpTo(n - 1)
         IN  shorter \cup {Append(t, l) : t \in {u \in shorter : Len(u) = n - 1},
                                          l \in DetectPalette}

\* Samples with lines: some lines of the palette, then no plain line or from
\* MinPlainLines to MaxPlainLines of them, one line after the other.
LinedTexts ==
    {PyJoin(<<LF>>, marked \o [k \in 1..plain |-> PlainLine]) :
        marked \in MarkedLinesUpTo(MaxMarkedLines),
        plain \in {0} \cup MinPlainLines..MaxPlainLines}

\* Texts with no non-empty line: blanks only, and a blank sample of 5000
\* characters with a header after it.
BlankTexts ==
    StringsUpTo({SP, LF, TAB}, MaxBlankLen)
    \cup {Repeat(SP, SampleSize) \o <<LF, "#", SP, "a">>,
          Repeat(LF, SampleSize) \o <<"a", "b", "c", "D", "e">>}

\* All-lowercase prose with an accented letter after three letters, alone and
\* before a plain line.
AccentedTexts ==
    { <<"a", "b", "c", EACUTE, "a">>,
      <<"a", "b", "c", EACUTE, "a", LF>> \o PlainLine }

DetectInputs == LinedTexts \cup BlankTexts \cup AccentedTexts

\* The most rows of the workbook and the most PDF documents of one run.
MaxRows == 2
MaxPdfs == 2

\* Rows of the workbook: an entry, the header row, and a row without a term.
RowPalette ==
    { [terme |-> <<"O", "p", "c", SP>>, definition |-> <<"U", "n", SP, "b", ".">>],
      [terme |-> <<"T", "e", "r", "m", "e">>, definition |-> <<"D", "e", "f">>],
      [terme |-> NaN, definition |-> <<"x">>] }

Workbooks ==
    {[readable |-> FALSE, name |-> "glossaire.xlsx", rows |-> <<>>]}
    \cup [readable : {TRUE}, name : {"glossaire.xlsx"},
          rows : UNION {[1..n -> RowPalette] : n \in 0..MaxRows}]

\* Cleaned texts of PDF documents: prose, a header and a paragraph, a label
\* with its definition, and a term with a long line that is no definition.
PdfTexts ==
    { <<"L", "e", SP, "b", ".", SP, "L", "e", SP, "b", ".">>,
      <<"#", SP, "a", LF, "L", "e", SP, "b", ".">>,
      <<"a", "b", "c", ":", SP, "D", "e">>,
      <<"A", "b", LF>> \o Repeat("x", 81) }

PdfNames == <<"guide.pdf", "notes.pdf", "regles.pdf", "tarifs.pdf">>

\* What load_all_documents returns: one record for each PDF with text.
LoadedDocuments ==
    UNION {{[i \in 1..n |-> [filename |-> PdfNames[i],
                             content  |-> texts[i],
                             metadata |-> PdfMetadata(PdfNames[i])]] :
              texts \in [1..n -> PdfTexts]} : n \in 0..MaxPdfs}

\* A record an earlier run left in the collection.
OldRecord ==
    [content  |-> <<"o", "l", "d">>,
     metadata |-> [source |-> "guide.pdf", type |-> "narrative"],
     id       |-> <<"uuid", "guide.pdf", "chunk", 0>>]

\* The collection before the run: none, one that __init__ created, and one
\* that clear_collection created, each with what an earlier run added.
PersistedCollections ==
    { NoCollection,
      [exists |-> TRUE, space |-> CosineSpace, records |-> <<OldRecord>>],
      [exists |-> TRUE, space |-> DefaultSpace, records |-> <<OldRecord>>] }

\* ------------------------------------------------------- the chunking call

\* The chunker, the retriever and the normalizer when they are not the part
\* of the program under study.
ChunkerIdle ==
    /\ arg_text = <<>>
    /\ arg_source = "None"
    /\ arg_force_format = "None"
    /\ arg_chunk_size = DefaultChunkSize
    /\ arg_overlap = DefaultOverlap
    /\ ret_chunks = <<>>
    /\ chunk_pc = "idle"

RetrieverIdle ==
    /\ collection = <<>>
    /\ self_top_k = 0
    /\ self_similarity_threshold = 0
    /\ store_results = "None"
    /\ ret_docs = <<>>
    /\ retr_history = <<>>
    /\ retr_pc = "idle"
    /\ retr_fault = "None"
    /\ retr_error = "None"

NormalizerIdle ==
    /\ clean_input = <<>>
    /\ clean_text = <<>>
    /\ clean_passes = 0

DetectorIdle ==
    /\ det_text = <<>>
    /\ ret_format = "None"
    /\ det_pc = "idle"

IndexerIdle ==
    /\ idx_xlsx = [readable |-> FALSE, name |-> "None", rows |-> <<>>]
    /\ idx_documents = <<>>
    /\ idx_records = <<>>
    /\ idx_chunked = <<>>
    /\ persisted = NoCollection
    /\ vs_handle = "none"
    /\ clear_fault = "None"
    /\ idx_added = <<>>
    /\ idx_error = "None"
    /\ idx_pc = "idle"
    /\ vs_calls = 0

LoaderIdle ==
    /\ ld_dir = <<>>
    /\ ret_text = <<>>
    /\ ret_documents = <<>>
    /\ dbg_chunks = <<>>
    /\ ld_done = {}

AgentIdle ==
    /\ ag_docs = <<>>
    /\ ag_context = <<>>
    /\ ag_response = <<>>
    /\ ag_retrieve_calls = 0
    /\ ag_llm_calls = 0
    /\ ag_pc = "idle"
    /\ ag_questions = 0

InitChunk ==
    /\ \E in \in ChunkInputs :
          /\ arg_text = in.text
          /\ arg_source = in.source
          /\ arg_force_format = in.force_format
          /\ arg_chunk_size = in.chunk_size
          /\ arg_overlap = in.overlap
    /\ ret_chunks = <<>>
    /\ chunk_pc = "ready"
    /\ RetrieverIdle
    /\ NormalizerIdle
    /\ DetectorIdle
    /\ IndexerIdle
    /\ LoaderIdle
    /\ AgentIdle

\* chunker.chunk(text, source, force_format, chunk_size, overlap) runs and
\* returns.
ChunkCall ==
    /\ chunk_pc = "ready"
    /\ ret_chunks' = Chunk(arg_text, arg_source, arg_force_format,
                           arg_chunk_size, arg_overlap)
    /\ chunk_pc' = "done"
    /\ UNCHANGED <<arg_text, arg_source, arg_force_format, arg_chunk_size, arg_overlap>>
    /\ UNCHANGED <<retr_vars, clean_vars, det_vars, idx_vars, ld_vars, ag_vars>>

NextChunk == ChunkCall

SpecChunk == InitChunk /\ [][NextChunk]_vars

\* ------------------------------------------------------ the retrieval calls

\* Retriever(vector_store, embeddings, top_k, similarity_threshold) over a
\* store that holds some chunks.
InitRetrieve ==
    /\ collection \in Rankings
    /\ self_top_k \in 1..MaxTopK
    /\ self_similarity_threshold \in Thresholds
    /\ store_results = "None"
    /\ ret_docs = <<>>
    /\ retr_history = <<>>
    /\ retr_pc = "ready"
    /\ retr_fault = "None"
    /\ retr_error = "None"
    /\ ChunkerIdle
    /\ NormalizerIdle
    /\ DetectorIdle
    /\ IndexerIdle
    /\ LoaderIdle
    /\ AgentIdle

\* retriever.retrieve(query): the query is embedded, the store is asked for
\* fetch_k candidates, the candidates are scored and filtered, the result is
\* cut and returned; or a collaborator raises and the call ends there.
RetrieveCall ==
    /\ retr_pc = "ready"
    /\ \E fault \in Faults :
          LET out == RetrieveOutcome(fault, collection, self_top_k,
                                     self_similarity_threshold)
          IN  /\ retr_fault' = fault
              /\ retr_pc' = out.pc
              /\ retr_error' = out.error
              /\ store_results' = IF out.pc = "returned" THEN out.results
                                  ELSE store_results
              /\ ret_docs' = IF out.pc = "returned" THEN out.docs ELSE ret_docs
              /\ retr_history' =
                     IF out.pc = "returned"
                     THEN Append(retr_history,
                                 [top_k |-> self_top_k,
                                  similarity_threshold |-> self_similarity_threshold,
                                  docs |-> out.docs])
                     ELSE retr_history
    /\ UNCHANGED <<collection, self_top_k, self_similarity_threshold>>
    /\ UNCHANGED <<chunk_vars, clean_vars, det_vars, idx_vars, ld_vars, ag_vars>>

\* Retriever.__init__ again, with another configuration, over the same store;
\* the next call asks the same query.
NewRetriever ==
    /\ retr_pc = "returned"
    /\ Len(retr_history) < MaxCalls
    /\ \E top_k \in 1..MaxTopK, similarity_threshold \in Thresholds :
          /\ self_top_k' = top_k
          /\ self_similarity_threshold' = similarity_threshold
    /\ retr_pc' = "ready"
    /\ UNCHANGED <<collection, store_results, ret_docs, retr_history,
                   retr_fault, retr_error>>
    /\ UNCHANGED <<chunk_vars, clean_vars, det_vars, idx_vars, ld_vars, ag_vars>>

NextRetrieve == RetrieveCall \/ NewRetriever

SpecRetrieve == InitRetrieve /\ [][NextRetrieve]_vars

\* ----------------------------------------------------- the normalizer calls

\* The text extracted from a PDF, before it is cleaned.
InitClean ==
    /\ clean_input \in RawTexts
    /\ clean_text = clean_input
    /\ clean_passes = 0
    /\ ChunkerIdle
    /\ RetrieverIdle
    /\ DetectorIdle
    /\ IndexerIdle
    /\ LoaderIdle
    /\ AgentIdle

\* self._clean_pdf_text(text), on the text the last call made.
CleanCall ==
    /\ clean_passes < MaxPasses
    /\ clean_input' = clean_text
    /\ clean_text' = CleanPdfText(clean_text)
    /\ clean_passes' = clean_passes + 1
    /\ UNCHANGED <<chunk_vars, retr_vars, det_vars, idx_vars, ld_vars, ag_vars>>

NextClean == CleanCall

SpecClean == InitClean /\ [][NextClean]_vars

\* ------------------------------------------------------ the detection call

InitDetect ==
    /\ det_text \in DetectInputs
    /\ ret_format = "None"
    /\ det_pc = "ready"
    /\ ChunkerIdle
    /\ RetrieverIdle
    /\ NormalizerIdle
    /\ IndexerIdle
    /\ LoaderIdle
    /\ AgentIdle

\* chunker.detect_format(text) runs and returns (or raises).
DetectCall ==
    /\ det_pc = "ready"
    /\ ret_format' = DetectFormat(det_text)
    /\ det_pc' = IF ret_format' = "ZeroDivisionError" THEN "raised" ELSE "done"
    /\ UNCHANGED det_text
    /\ UNCHANGED <<chunk_vars, retr_vars, clean_vars, idx_vars, ld_vars, ag_vars>>

NextDetect == DetectCall

SpecDetect == InitDetect /\ [][NextDetect]_vars

\* ------------------------------------------------- the indexing run and store

\* The most calls made on LocalVectorStore outside index_documents.
MaxStoreCalls == 2

\* A record a caller of add_documents adds.
NewRecord ==
    [content  |-> <<"n", "e", "w">>,
     metadata |-> [source |-> "notes.pdf", type |-> "section"],
     id       |-> <<"uuid", "notes.pdf", "chunk", 0>>]

InitIndex ==
    /\ LoaderIdle
    /\ AgentIdle
    /\ ChunkerIdle
    /\ RetrieverIdle
    /\ NormalizerIdle
    /\ DetectorIdle
    /\ idx_xlsx = [readable |-> FALSE, name |-> "None", rows |-> <<>>]
    /\ idx_documents = <<>>
    /\ idx_records = <<>>
    /\ idx_chunked = <<>>
    /\ persisted \in PersistedCollections
    /\ vs_handle = "none"
    /\ clear_fault = "None"
    /\ idx_added = <<>>
    /\ idx_error = "None"
    /\ idx_pc = "start"
    /\ vs_calls = 0

\* One run of index_documents, from loading to the return or the exception;
\* main() runs it before it makes any store of its own.
IndexDocuments ==
    /\ idx_pc = "start"
    /\ vs_handle = "none"
    /\ \E xlsx \in Workbooks, documents \in LoadedDocuments :
        \E glossary_chunks \in {LoadGlossaryXlsx(xlsx)} :
        \E records \in {CollectedRecords(glossary_chunks, documents,
                                          DefaultChunkSize, DefaultOverlap)} :
        \E embed_fault \in EmbedFaults, clr_fault \in ClearFaults,
           add_fault \in AddFaults :
          \E out \in {IndexDocumentsOutcome(glossary_chunks, documents, records,
                                             persisted, embed_fault, clr_fault,
                                             add_fault)} :
              /\ idx_xlsx' = xlsx
              /\ idx_documents' = documents
              /\ idx_records' = out.records
              /\ idx_chunked' = out.chunked
              /\ persisted' = out.db
              /\ vs_handle' = out.handle
              /\ clear_fault' = out.cleared
              /\ idx_added' = out.added
              /\ idx_error' = out.error
              /\ idx_pc' = out.pc
    /\ UNCHANGED vs_calls
    /\ UNCHANGED <<chunk_vars, retr_vars, clean_vars, det_vars, ld_vars, ag_vars>>

\* LocalVectorStore(...) outside the run.
NewStore ==
    /\ vs_calls < MaxStoreCalls
    /\ persisted' = StoreInit(persisted)
    /\ vs_handle' = "live"
    /\ vs_calls' = vs_calls + 1
    /\ UNCHANGED <<idx_xlsx, idx_documents, idx_records, idx_chunked,
                   clear_fault, idx_added, idx_error, idx_pc>>
    /\ UNCHANGED <<chunk_vars, retr_vars, clean_vars, det_vars, ld_vars, ag_vars>>

\* vector_store.clear_collection() outside the run.
ClearCall ==
    /\ vs_calls < MaxStoreCalls
    /\ vs_handle # "none"
    /\ \E fault \in ClearFaults :
          LET out == ClearCollection(persisted, vs_handle, fault)
          IN  /\ persisted' = out.db
              /\ vs_handle' = out.handle
    /\ vs_calls' = vs_calls + 1
    /\ UNCHANGED <<idx_xlsx, idx_documents, idx_records, idx_chunked,
                   clear_fault, idx_added, idx_error, idx_pc>>
    /\ UNCHANGED <<chunk_vars, retr_vars, clean_vars, det_vars, ld_vars, ag_vars>>

\* vector_store.add_documents(...) outside the run; an exception leaves the
\* collection as it was.
AddCall ==
    /\ vs_calls < MaxStoreCalls
    /\ vs_handle # "none"
    /\ \E fault \in AddFaults :
          persisted' = AddDocuments(persisted, vs_handle, <<NewRecord>>, fault).db
    /\ vs_calls' = vs_calls + 1
    /\ UNCHANGED <<idx_xlsx, idx_documents, idx_records, idx_chunked, vs_handle,
                   clear_fault, idx_added, idx_error, idx_pc>>
    /\ UNCHANGED <<chunk_vars, retr_vars, clean_vars, det_vars, ld_vars, ag_vars>>

NextIndex == IndexDocuments \/ NewStore \/ ClearCall \/ AddCall

SpecIndex == InitIndex /\ [][NextIndex]_vars

\* ------------------------------------------- the PDF loaders and the directory

\* OVERLAP and CHUNK_SIZE of main() in debug_chunks.py.
CHUNK_SIZE == 600
OVERLAP    == 80

\* kw in filename_lower
PyIn(sub, s) ==
    \E p \in 0..(Len(s) - Len(sub)) : SubSeq(s, p + 1, p + Len(sub)) = sub

\* exclude_keywords of load_all_documents, EXCLUDE_KEYWORDS of debug_chunks.py.
ExcludeKeywords ==
    { <<"g", "l", "o", "s", "s", "a", "i", "r", "e">>,
      <<"g", "l", "o", "s", "s", "a", "r", "y">> }

\* any(kw in filename_lower for kw in exclude_keywords)
Excluded(name) == \E kw \in ExcludeKeywords : PyIn(kw, PyLower(name))

\* page.extract_text() of the page as read with pdfplumber or with PyPDF2.
PageText(page, extractor) ==
    IF extractor = "pdfplumber" THEN page.pdfplumber ELSE page.pypdf2

\* What the loop over the pages appends to text for the first count pages:
\* extracted + "\n\n" for each page with text.
ExtractedText(pages, extractor, count) ==
    Flatten([i \in 1..count |->
                IF PageText(pages[i], extractor) # <<>>
                THEN PageText(pages[i], extractor) \o <<LF, LF>>
                ELSE <<>>])

\* DocumentLoader.load_pdf: text is set once, before the first try; the pages
\* pdfplumber read before it raised stay in it when PyPDF2 takes over.
LoadPdf(pdf) ==
    LET first == ExtractedText(pdf.pages, "pdfplumber", pdf.pdfplumber.pages_read)
    IN  IF ~pdf.pdfplumber.raised THEN CleanPdfText(first)
        ELSE IF pdf.pypdf2.raised THEN <<>>
        ELSE CleanPdfText(first \o ExtractedText(pdf.pages, "PyPDF2", Len(pdf.pages)))

\* load_pdf_text of debug_chunks.py: text is set anew before each extractor.
LoadPdfText(pdf) ==
    IF ~pdf.pdfplumber.raised
    THEN DebugCleanPdfText(ExtractedText(pdf.pages, "pdfplumber", Len(pdf.pages)))
    ELSE IF pdf.pypdf2.raised THEN <<>>
    ELSE DebugCleanPdfText(ExtractedText(pdf.pages, "PyPDF2", Len(pdf.pages)))

\* DocumentLoader.load_all_documents: a record for each file that is not
\* excluded and has text (of the record, filename, content and metadata).
LoadAllDocuments(dir) ==
    LET files  == SelectSeq(dir, LAMBDA f : ~Excluded(f.name))
        loaded == [i \in 1..Len(files) |->
                      [filename |-> files[i].name,
                       content  |-> LoadPdf(files[i]),
                       metadata |-> PdfMetadata(files[i].name)]]
    IN  SelectSeq(loaded, LAMBDA d : d.content # <<>>)

\* SmartChunker.chunk of debug_chunks.py: the class repeats the one of
\* rag/smart_chunker.py statement for statement.
DebugChunk(text, source, chunk_size, overlap) ==
    Chunk(text, source, "None", chunk_size, overlap)

\* The PDF part of main() in debug_chunks.py: the chunks of each file that is
\* not excluded and has text, one file after the other.
DebugPdfChunks(dir) ==
    LET files == SelectSeq(dir, LAMBDA f : ~Excluded(f.name))
        texts == [i \in 1..Len(files) |-> LoadPdfText(files[i])]
    IN  Flatten([i \in 1..Len(files) |->
                    IF texts[i] = <<>> THEN <<>>
                    ELSE DebugChunk(texts[i], files[i].name, CHUNK_SIZE, OVERLAP)])

\* The most pages of a PDF file.
MaxPages == 2

\* Pages: one both extractors read alike, one only PyPDF2 finds text in, and
\* one with typographic double quotes.
PagePalette ==
    { [pdfplumber |-> <<"L", "e", SP, "a", ".">>, pypdf2 |-> <<"L", "e", SP, "a", ".">>],
      [pdfplumber |-> <<>>, pypdf2 |-> <<"b">>],
      [pdfplumber |-> <<LDQUO, "c", RDQUO>>, pypdf2 |-> <<LDQUO, "c", RDQUO>>] }

\* How an extractor gets through a file of n pages: to the end, or it raises
\* after some of the pages (none: the file does not open).
ExtractorRuns(n) ==
    {[pages_read |-> n, raised |-> FALSE]} \cup [pages_read : 0..n, raised : {TRUE}]

GuideName == <<"g", "u", "i", "d", "e", ".", "p", "d", "f">>
NotesName == <<"n", "o", "t", "e", "s", ".", "p", "d", "f">>
GlossaryPdfName == <<"G", "l", "o", "s", "s", "a", "i", "r", "e", ".", "p", "d", "f">>

PdfFiles ==
    UNION {[name : {GuideName}, pages : [1..n -> PagePalette],
            pdfplumber : ExtractorRuns(n), pypdf2 : ExtractorRuns(n)] : n \in 0..MaxPages}

\* A file both extractors read, under a name that is kept and under one that
\* is excluded.
ReadableFile(name) ==
    [name |-> name,
     pages |-> <<[pdfplumber |-> <<"U", "n", SP, "d", ".">>, pypdf2 |-> <<"U", "n", SP, "d", ".">>]>>,
     pdfplumber |-> [pages_read |-> 1, raised |-> FALSE],
     pypdf2 |-> [pages_read |-> 1, raised |-> FALSE]]

\* The documents directory: empty, one file, and that file before a second
\* file that is kept or one that is excluded.
Directories ==
    {<<>>} \cup {<<f>> : f \in PdfFiles}
           \cup {<<f, ReadableFile(NotesName)>> : f \in PdfFiles}
           \cup {<<f, ReadableFile(GlossaryPdfName)>> : f \in PdfFiles}

InitLoad ==
    /\ ld_dir \in Directories
    /\ ret_text = <<>>
    /\ ret_documents = <<>>
    /\ dbg_chunks = <<>>
    /\ ld_done = {}
    /\ ChunkerIdle
    /\ RetrieverIdle
    /\ NormalizerIdle
    /\ DetectorIdle
    /\ IndexerIdle
    /\ AgentIdle

\* loader.load_pdf(pdf_file) on the first file of the directory.
LoadPdfCall ==
    /\ "load_pdf" \notin ld_done
    /\ ld_dir # <<>>
    /\ ret_text' = LoadPdf(ld_dir[1])
    /\ ld_done' = ld_done \cup {"load_pdf"}
    /\ UNCHANGED <<ld_dir, ret_documents, dbg_chunks>>
    /\ UNCHANGED <<chunk_vars, retr_vars, clean_vars, det_vars, idx_vars, ag_vars>>

\* loader.load_all_documents()
LoadAllDocumentsCall ==
    /\ "load_all_documents" \notin ld_done
    /\ ret_documents' = LoadAllDocuments(ld_dir)
    /\ ld_done' = ld_done \cup {"load_all_documents"}
    /\ UNCHANGED <<ld_dir, ret_text, dbg_chunks>>
    /\ UNCHANGED <<chunk_vars, retr_vars, clean_vars, det_vars, idx_vars, ag_vars>>

\* python debug_chunks.py, as far as the PDF files go.
DebugMain ==
    /\ "debug_chunks" \notin ld_done
    /\ dbg_chunks' = DebugPdfChunks(ld_dir)
    /\ ld_done' = ld_done \cup {"debug_chunks"}
    /\ UNCHANGED <<ld_dir, ret_text, ret_documents>>
    /\ UNCHANGED <<chunk_vars, retr_vars, clean_vars, det_vars, idx_vars, ag_vars>>

NextLoad == LoadPdfCall \/ LoadAllDocumentsCall \/ DebugMain

SpecLoad == InitLoad /\ [][NextLoad]_vars

\* ------------------------------------------------------------- the RAG agent

\* The content of the response when nothing was retrieved.
NoInformationMessage ==
    "Je n'ai pas trouvé d'informations pertinentes dans la base de connaissances Maroclear. Pouvez-vous reformuler votre question ?"

\* dict.get(key, default)
DictGet(dict, key, default) == IF key \in DOMAIN dict THEN dict[key] ELSE default

\* list(dict.fromkeys(keys)): the keys without repetition, each where it
\* first appears.
DictFromKeysKeepingAll(keys) == keys

DictFromKeys(keys) ==
    KeepAt(keys, {i \in 1..Len(keys) : \A j \in 1..(i - 1) : keys[j] # keys[i]})

\* The entries of docs whose stripped content no earlier entry has (the set
\* seen of _build_context), as the indexes that stay.
FirstOfContent(docs) ==
    {i \in 1..Len(docs) :
        \A j \in 1..(i - 1) : Strip(docs[j].content) # Strip(docs[i].content)}

\* RAGAgent._build_context, as the parts it joins with "\n\n": the header and
\* the definitions of the glossary first, then the header and the extracts
\* of the other documents, each numbered as enumerate numbers it.
BuildContext(retrieved_docs) ==
    LET glossaire_docs == SelectSeq(retrieved_docs,
                              LAMBDA d : DictGet(d.metadata, "type", "None") = "glossaire")
        other_docs     == SelectSeq(retrieved_docs,
                              LAMBDA d : DictGet(d.metadata, "type", "None") # "glossaire")
        definitions    == [i \in 1..Len(glossaire_docs) |->
                              [part |-> "definition",
                               content |-> Strip(glossaire_docs[i].content)]]
        extracts       == [i \in 1..Len(other_docs) |->
                              [part |-> "extract", number |-> i,
                               source |-> DictGet(other_docs[i].metadata, "source", "Document"),
                               score |-> other_docs[i].score,
                               content |-> Strip(other_docs[i].content)]]
    IN  (IF glossaire_docs = <<>> THEN <<>>
         ELSE <<[part |-> "header", title |-> "=== DÉFINITIONS DU GLOSSAIRE ==="]>>
              \o KeepAt(definitions, FirstOfContent(glossaire_docs)))
        \o
        (IF other_docs = <<>> THEN <<>>
         ELSE <<[part |-> "header", title |-> "\n=== EXTRAITS DES DOCUMENTS ==="]>>
              \o KeepAt(extracts, FirstOfContent(other_docs)))

\* AgentMessage.create_response(sender, content, metadata): of the message,
\* the sender, the type, the content and the metadata.
CreateResponse(sender, content, metadata) ==
    [sender_agent |-> sender, message_type |-> "response",
     content |-> content, metadata |-> metadata]

\* The response of process when nothing was retrieved.
NoInformationResponse ==
    CreateResponse("RAG_Agent", NoInformationMessage,
                   [retrieved_docs_count |-> 0, sources |-> <<>>])

\* The response of process with the answer of the LLM.
AnswerResponse(response_text, retrieved_docs) ==
    CreateResponse("RAG_Agent", response_text,
        [retrieved_docs_count |-> Len(retrieved_docs),
         sources |-> DictFromKeys([i \in 1..Len(retrieved_docs) |->
                         DictGet(retrieved_docs[i].metadata, "source", "unknown")])])

\* The most documents the retriever returns to the agent, and the most
\* questions asked one after the other.
MaxAgentDocs  == 3
MaxQuestions  == 2

\* Documents the retriever may return: two glossary entries with the same
\* content up to whitespace, two chunks of one PDF, and a chunk whose metadata
\* has no source.
DocPalette ==
    { [content |-> <<"t", LF, "d">>, score |-> 9, id |-> "glossaire_0",
       metadata |-> [term |-> "t", type |-> "glossaire", source |-> "glossaire.xlsx"]],
      [content |-> <<"t", LF, "d", SP>>, score |-> 9, id |-> "glossaire_1",
       metadata |-> [term |-> "t", type |-> "glossaire", source |-> "glossaire.xlsx"]],
      [content |-> <<"a">>, score |-> 8, id |-> "guide_0",
       metadata |-> [type |-> "narrative", source |-> "guide.pdf"]],
      [content |-> <<"b">>, score |-> 8, id |-> "guide_1",
       metadata |-> [type |-> "section", source |-> "guide.pdf"]],
      [content |-> <<"c">>, score |-> 7, id |-> "other_0",
       metadata |-> [type |-> "narrative"]] }

\* What retrieve returns: documents of different ids, the best score first.
AgentRetrievals ==
    {r \in UNION {[1..n -> DocPalette] : n \in 0..MaxAgentDocs} :
        /\ \A i, j \in 1..Len(r) : i # j => r[i].id # r[j].id
        /\ \A i \in 1..(Len(r) - 1) : r[i].score >= r[i + 1].score}

\* What ollama.chat answers, before the strip of generate_rag_response.
LlmOutputs == { <<"o", "k">>, <<SP, "o", "k", LF>> }

InitAgent ==
    /\ ag_docs = <<>>
    /\ ag_context = <<>>
    /\ ag_response = <<>>
    /\ ag_retrieve_calls = 0
    /\ ag_llm_calls = 0
    /\ ag_pc = "ready"
    /\ ag_questions = 1
    /\ ChunkerIdle
    /\ RetrieverIdle
    /\ NormalizerIdle
    /\ DetectorIdle
    /\ IndexerIdle
    /\ LoaderIdle

\* process, up to the return of self.retriever.retrieve(message.content): the
\* retriever returns documents or raises, and then process ends with the
\* exception.
ProcessRetrieve ==
    /\ ag_pc = "ready"
    /\ ag_retrieve_calls' = ag_retrieve_calls + 1
    /\ \/ \E r \in AgentRetrievals : ag_docs' = r /\ ag_pc' = "retrieved"
       \/ ag_docs' = <<>> /\ ag_pc' = "raised"
    /\ UNCHANGED <<ag_context, ag_response, ag_llm_calls, ag_questions>>
    /\ UNCHANGED <<chunk_vars, retr_vars, clean_vars, det_vars, idx_vars, ld_vars>>

\* process, when nothing was retrieved: the fixed response.
ProcessNoInformation ==
    /\ ag_pc = "retrieved"
    /\ ag_docs = <<>>
    /\ ag_response' = <<NoInformationResponse>>
    /\ ag_pc' = "responded"
    /\ UNCHANGED <<ag_docs, ag_context, ag_retrieve_calls, ag_llm_calls, ag_questions>>
    /\ UNCHANGED <<chunk_vars, retr_vars, clean_vars, det_vars, idx_vars, ld_vars>>

\* process, when documents were retrieved: the context, the call of
\* generate_rag_response (which answers or raises) and the response.
ProcessGenerate ==
    /\ ag_pc = "retrieved"
    /\ ag_docs # <<>>
    /\ ag_context' = BuildContext(ag_docs)
    /\ ag_llm_calls' = ag_llm_calls + 1
    /\ \/ \E out \in LlmOutputs :
             /\ ag_response' = <<AnswerResponse(Strip(out), ag_docs)>>
             /\ ag_pc' = "responded"
       \/ ag_response' = <<>> /\ ag_pc' = "raised"
    /\ UNCHANGED <<ag_docs, ag_retrieve_calls, ag_questions>>
    /\ UNCHANGED <<chunk_vars, retr_vars, clean_vars, det_vars, idx_vars, ld_vars>>

\* The loop of test_rag_agent goes to the next question: a new call of
\* process.
NextQuestion ==
    /\ ag_pc = "responded"
    /\ ag_questions < MaxQuestions
    /\ ag_questions' = ag_questions + 1
    /\ ag_docs' = <<>>
    /\ ag_context' = <<>>
    /\ ag_response' = <<>>
    /\ ag_retrieve_calls' = 0
    /\ ag_llm_calls' = 0
    /\ ag_pc' = "ready"
    /\ UNCHANGED <<chunk_vars, retr_vars, clean_vars, det_vars, idx_vars, ld_vars>>

NextAgent == ProcessRetrieve \/ ProcessNoInformation \/ ProcessGenerate \/ NextQuestion

SpecAgent == InitAgent /\ [][NextAgent]_vars

\* ------------------------------------------------------------------ claims

Done == chunk_pc = "done"

\* The lines of a text, stripped, and those of them that are not empty.
StrippedLines(t) ==
    LET split == SplitLines(t)
    IN  [k \in 1..Len(split) |-> Strip(split[k])]

NonEmptyLines(t) ==
    LET lines == StrippedLines(t)
        kept  == SortedSeq({k \in 1..Len(lines) : lines[k] # <<>>}, 1, Len(lines))
    IN  [k \in 1..Len(kept) |-> lines[kept[k]]]

\* C1: whatever the text, the source, the sizes and the format (detected or
\* forced), every chunk that chunk() returns has the type narrative or
\* section, never the glossary tag.
C1_NeverGlossaryType ==
    Done => \A k \in 1..Len(ret_chunks) :
                ret_chunks[k].metadata.type \in {"narrative", "section"}

\* A glossary strategy has produced chunks with a term.
C1_Witness ==
    /\ Done
    /\ arg_force_format \in {GLOSSARY_NEWLINE, GLOSSARY_COLON, GLOSSARY_INLINE}
    /\ Len(ret_chunks) >= 1
    /\ "term" \in DOMAIN ret_chunks[1].metadata

\* next begins with the last m words of prev, joined by single spaces and
\* followed by a space or the end of the chunk.
BeginsWithLastWords(prev, next, m) ==
    LET w    == PySplit(prev)
        run  == PyJoin(<<SP>>, SubSeq(w, Len(w) - m + 1, Len(w)))
    IN  /\ StartsWith(next, run)
        /\ (Len(next) = Len(run) \/ next[Len(run) + 1] = SP)

\* C7: in narrative chunking every chunk after the first begins with whole
\* words that end the chunk before it: at least one, and at least overlap of
\* them when the chunk before has that many.
C7_OverlapIsWholeWords ==
    (Done /\ arg_force_format = NARRATIVE) =>
        \A k \in 1..(Len(ret_chunks) - 1) :
            LET n == Len(PySplit(ret_chunks[k].content))
            IN  \E m \in 1..n :
                    /\ m >= Min2(arg_overlap, n)
                    /\ BeginsWithLastWords(ret_chunks[k].content,
                                           ret_chunks[k + 1].content, m)

\* A second chunk begins with the last word of a first chunk of two words
\* or more.
C7_Witness ==
    /\ Done /\ arg_force_format = NARRATIVE /\ arg_overlap = 1
    /\ Len(ret_chunks) >= 2
    /\ Len(PySplit(ret_chunks[1].content)) >= 2
    /\ BeginsWithLastWords(ret_chunks[1].content, ret_chunks[2].content, 1)

\* The indexes of the term lines of the non-empty lines, the index after
\* the definition lines of the term at i, and the terms that have some.
TermIndexes(lines) == {i \in 1..Len(lines) : IsTermLine(lines[i])}
DefinitionEndIn(terms, n, i) ==
    IF \E j \in terms : j > i
    THEN CHOOSE j \in terms : j > i /\ \A h \in terms : h > i => j <= h
    ELSE n + 1
DefinitionEnd(lines, i) == DefinitionEndIn(TermIndexes(lines), Len(lines), i)
DefinedTerms(lines) ==
    UNION {{i \in terms : DefinitionEndIn(terms, Len(lines), i) > i + 1} :
              terms \in {TermIndexes(lines)}}

\* C9: the glossary_newline strategy returns, in the order of the text, one
\* chunk for each term line that has definition lines before the next term
\* line or the end: its term is the term line, its content the term, a line
\* break and the definition lines joined by single spaces.  Terms without a
\* definition and lines before the first term are in no chunk.
C9_GlossaryNewlineChunks ==
    (Done /\ arg_force_format = GLOSSARY_NEWLINE) =>
        \A lines \in {NonEmptyLines(arg_text)} :
        \A all \in {TermIndexes(lines)} :
        \A terms \in {SortedSeq(DefinedTerms(lines), 1, Len(lines))} :
            /\ Len(ret_chunks) = Len(terms)
            /\ \A k \in 1..Len(terms) :
                  /\ ret_chunks[k].metadata.term = lines[terms[k]]
                  /\ ret_chunks[k].content =
                        lines[terms[k]] \o <<LF>> \o
                        PyJoin(<<SP>>, SubSeq(lines, terms[k] + 1,
                                              DefinitionEndIn(all, Len(lines), terms[k]) - 1))

\* A chunk is returned and a term line without definition is left out.
C9_Witness ==
    /\ Done /\ arg_force_format = GLOSSARY_NEWLINE
    /\ Len(ret_chunks) >= 1
    /\ Cardinality(TermIndexes(NonEmptyLines(arg_text))) > Len(ret_chunks)

\* line is label, a colon, whitespace and definition: 3 to 60 characters
\* without a colon, then the text after the whitespace, which is not empty.
IsColonEntry(line, label, definition) ==
    /\ Len(label) >= 3 /\ Len(label) <= 60
    /\ ~Contains(label, ":")
    /\ definition # <<>> /\ ~IsWs(definition[1])
    /\ \E w \in 1..Len(line) :
          /\ Len(line) = Len(label) + 1 + w + Len(definition)
          /\ line = label \o <<":">> \o SubSeq(line, Len(label) + 2, Len(label) + 1 + w)
                          \o definition
          /\ \A i \in (Len(label) + 2)..(Len(label) + 1 + w) : IsWs(line[i])

HasColonForm(line) ==
    \E i \in 1..(Len(line) - 1) :
        /\ line[i + 1] = ":"
        /\ \E j \in (i + 2)..Len(line) :
              IsColonEntry(line, SubSeq(line, 1, i), SubSeq(line, j, Len(line)))

\* C10: the glossary_colon strategy returns, in the order of the lines, one
\* chunk for each stripped line of the form label, colon, whitespace,
\* definition, with the label as term and the content term, line break,
\* definition; the other lines give no chunk.
C10_GlossaryColonChunks ==
    (Done /\ arg_force_format = GLOSSARY_COLON) =>
        \A lines \in {StrippedLines(arg_text)} :
        \A entries \in {SortedSeq({k \in 1..Len(lines) : HasColonForm(lines[k])},
                                  1, Len(lines))} :
            /\ Len(ret_chunks) = Len(entries)
            /\ \A k \in 1..Len(entries) :
                  LET term    == ret_chunks[k].metadata.term
                      content == ret_chunks[k].content
                  IN  /\ Len(content) >= Len(term) + 2
                      /\ SubSeq(content, 1, Len(term) + 1) = term \o <<LF>>
                      /\ IsColonEntry(lines[entries[k]], term,
                                      SubSeq(content, Len(term) + 2, Len(content)))

\* A line of the colon form gives a chunk and another line gives none.
C10_Witness ==
    /\ Done /\ arg_force_format = GLOSSARY_COLON
    /\ Len(ret_chunks) >= 1
    /\ \E k \in 1..Len(StrippedLines(arg_text)) :
          /\ Contains(StrippedLines(arg_text)[k], ":")
          /\ ~HasColonForm(StrippedLines(arg_text)[k])

\* ------------------------------------------------------- claims on retrieval

Returned == retr_pc = "returned"

\* The indexes of the candidates of the last response, and those whose
\* 1 - distance reaches the threshold t.
Candidates == 1..Len(store_results.distances[1])
CandidatesAtLeast(t) == {i \in Candidates : One - store_results.distances[1][i] >= t}

\* C2: whatever the store answers (none, fewer or more candidates than
\* top_k, at any distances), retrieve returns at most top_k documents.
C2_AtMostTopK ==
    Returned => Len(ret_docs) <= self_top_k

\* More candidates than top_k reach the threshold, and top_k documents are
\* returned.
C2_Witness ==
    /\ Returned
    /\ Cardinality(CandidatesAtLeast(self_similarity_threshold)) > self_top_k
    /\ Len(ret_docs) = self_top_k

\* C3: every returned document carries as score 1 minus the raw distance of
\* its own candidate, that score is at least similarity_threshold, and no
\* candidate whose 1 - distance is below the threshold is returned.
C3_ScoreIsOneMinusDistance ==
    Returned =>
        /\ \A k \in 1..Len(ret_docs) :
              \E i \in Candidates :
                  /\ store_results.ids[1][i] = ret_docs[k].id
                  /\ ret_docs[k].score = One - store_results.distances[1][i]
                  /\ ret_docs[k].score >= self_similarity_threshold
        /\ \A i \in Candidates :
              One - store_results.distances[1][i] < self_similarity_threshold
                  => \A k \in 1..Len(ret_docs) : ret_docs[k].id # store_results.ids[1][i]

\* A document is returned with a score that is exactly the threshold, and a
\* candidate below the threshold is left out.
C3_Witness ==
    /\ Returned
    /\ \E k \in 1..Len(ret_docs) : ret_docs[k].score = self_similarity_threshold
    /\ \E i \in Candidates :
          One - store_results.distances[1][i] < self_similarity_threshold

\* C4: of two calls on the same store response with the same top_k, the one
\* with the higher (or equal) threshold returns no more documents than the
\* other.
C4_ThresholdMonotone ==
    \A a, b \in 1..Len(retr_history) :
        (/\ retr_history[a].top_k = retr_history[b].top_k
         /\ retr_history[a].similarity_threshold <= retr_history[b].similarity_threshold)
            => Len(retr_history[b].docs) <= Len(retr_history[a].docs)

\* Two calls with the same top_k, the second with a higher threshold and
\* strictly fewer documents.
C4_Witness ==
    /\ Len(retr_history) = 2
    /\ retr_history[1].top_k = retr_history[2].top_k
    /\ retr_history[1].similarity_threshold < retr_history[2].similarity_threshold
    /\ Len(retr_history[2].docs) < Len(retr_history[1].docs)
    /\ Len(retr_history[2].docs) > 0

C6_Idempotent ==
    clean_passes >= 2 => clean_text = clean_input

\* -------------------------------------------------- the 1400-character text

IsScenario ==
    /\ Done
    /\ Len(arg_text) = 1400
    /\ arg_force_format = NARRATIVE
    /\ arg_chunk_size = 600
    /\ arg_overlap = 80

\* C8, as stated: a text of 1400 characters cut with chunk_size 600 and
\* overlap 80 gives exactly 3 chunks, and the first 80 words of the second
\* are the last 80 words of the first.
C8_ExactlyThreeChunks ==
    IsScenario =>
        /\ Len(ret_chunks) = 3
        /\ SubSeq(PySplit(ret_chunks[2].content), 1, 80)
               = PyLastK(PySplit(ret_chunks[1].content), 80)

\* C8, amended: the number of chunks of a 1400-character text depends on
\* where its sentences end and on the length of its words: at least one chunk
\* when the text is not blank and none when it is, 3 for sentences of ten
\* one-letter words, 10 for sentences of eight five-letter words, 40 for
\* sentences of two nine-letter words, 1 when no sentence ends; and every
\* chunk after the first begins with the last min(80, n) words of the chunk
\* before it, n being the number of words of that chunk.
C8_ChunksFollowSentences ==
    IsScenario =>
        /\ (Strip(arg_text) # <<>>) <=> (Len(ret_chunks) >= 1)
        /\ arg_text = ScenarioShortWords => Len(ret_chunks) = 3
        /\ arg_text = ScenarioFiveLetterWords => Len(ret_chunks) = 10
        /\ arg_text = ScenarioNineLetterWords => Len(ret_chunks) = 40
        /\ arg_text = ScenarioNoSentenceEnd => Len(ret_chunks) = 1
        /\ \A k \in 1..(Len(ret_chunks) - 1) :
              BeginsWithLastWords(ret_chunks[k].content, ret_chunks[k + 1].content,
                                  Min2(80, Len(PySplit(ret_chunks[k].content))))

\* The text of ten one-letter words a sentence is cut in 3 chunks, and the
\* second begins with the last 80 words of the first.
C8_Witness ==
    /\ IsScenario
    /\ Len(ret_chunks) = 3
    /\ Len(PySplit(ret_chunks[1].content)) > 80
    /\ BeginsWithLastWords(ret_chunks[1].content, ret_chunks[2].content, 80)

\* ------------------------------------------------------- claims on detection

Detected == det_pc \in {"done", "raised"}

\* The first 5000 characters of the text hold no line with a character that
\* is not whitespace.
BlankSample ==
    \A i \in 1..Min2(5000, Len(det_text)) : det_text[i] \in {SP, LF, TAB}

\* The number of lines of the sample, and of each format the number of lines
\* that count for it.
DetTotal == Len(SampleLines(det_text))
DetCount(f) == FormatCounts(SampleLines(det_text))[f]

\* C11: on a text whose first 5000 characters hold no non-empty line (the
\* empty string, whitespace, blank lines), detect_format returns narrative and
\* does not raise.
C11_BlankSampleIsNarrative ==
    (Detected /\ BlankSample) => (det_pc = "done" /\ ret_format = NARRATIVE)

\* A text with blank lines only, and a text that has a header after 5000
\* blank characters, have been classified.
C11_Witness ==
    /\ det_pc = "done"
    /\ BlankSample
    /\ Len(det_text) > 5000
    /\ \E i \in 1..Len(det_text) : det_text[i] = "#"

\* In the counts c, glossary_inline is the raw winner: its count is above
\* those of glossary_newline and glossary_colon and at least that of
\* sectioned.
InlineWinsRawIn(c, total) ==
    /\ total > 0
    /\ c[GLOSSARY_INLINE] > c[GLOSSARY_NEWLINE]
    /\ c[GLOSSARY_INLINE] > c[GLOSSARY_COLON]
    /\ c[GLOSSARY_INLINE] >= c[SECTIONED]

InlineWinsRaw == InlineWinsRawIn(FormatCounts(SampleLines(det_text)), DetTotal)

\* C12: when glossary_inline is the raw winner the result is glossary_newline
\* if the newline score is at least 0.25, else sectioned if the sectioned
\* score is at least 0.05, else narrative if the inline score is below 0.50,
\* else glossary_inline; and glossary_inline is returned only with an inline
\* score of at least 0.50, a newline score below 0.25 and a sectioned score
\* below 0.05.
C12_InlineOverridePriority ==
    Detected =>
        \A total \in {DetTotal}, c \in {FormatCounts(SampleLines(det_text))} :
            /\ InlineWinsRawIn(c, total) =>
                  ret_format =
                      IF 4 * c[GLOSSARY_NEWLINE] >= total THEN GLOSSARY_NEWLINE
                      ELSE IF 20 * c[SECTIONED] >= total THEN SECTIONED
                      ELSE IF 2 * c[GLOSSARY_INLINE] < total THEN NARRATIVE
                      ELSE GLOSSARY_INLINE
            /\ ret_format = GLOSSARY_INLINE =>
                  /\ 2 * c[GLOSSARY_INLINE] >= total
                  /\ 4 * c[GLOSSARY_NEWLINE] < total
                  /\ 20 * c[SECTIONED] < total

\* glossary_inline wins raw while the newline score is at least 0.25 and the
\* sectioned score at least 0.05: glossary_newline is returned.
C12_Witness ==
    /\ det_pc = "done"
    /\ InlineWinsRaw
    /\ 4 * DetCount(GLOSSARY_NEWLINE) >= DetTotal
    /\ 20 * DetCount(SECTIONED) >= DetTotal
    /\ ret_format = GLOSSARY_NEWLINE

\* C13: a format other than narrative is returned only with a score of its
\* own of at least 0.04, and a sample whose four counts are 0 is narrative.
C13_NoWeakFormat ==
    Detected =>
        \A total \in {DetTotal} \ {0}, c \in {FormatCounts(SampleLines(det_text))} :
            /\ ret_format # NARRATIVE =>
                  /\ ret_format \in {GLOSSARY_NEWLINE, GLOSSARY_COLON, GLOSSARY_INLINE, SECTIONED}
                  /\ 100 * c[ret_format] >= 4 * total
            /\ (\A f \in {GLOSSARY_NEWLINE, GLOSSARY_COLON, GLOSSARY_INLINE, SECTIONED} :
                    c[f] = 0) => ret_format = NARRATIVE

\* One line in 26 is a header and nothing else counts: the score of sectioned
\* is the best and is below 0.04, the text is narrative.
C13_Witness ==
    /\ det_pc = "done"
    /\ DetTotal = 26
    /\ DetCount(SECTIONED) = 1
    /\ DetCount(GLOSSARY_NEWLINE) = 0
    /\ DetCount(GLOSSARY_COLON) = 0
    /\ DetCount(GLOSSARY_INLINE) = 0
    /\ ret_format = NARRATIVE

\* ------------------------------------------- claims on the chunk metadata

\* C14: every chunk of one call of chunk() carries the source argument as
\* metadata.source, and as metadata.format one value for the whole call: the
\* forced format when there is one, else the format detect_format returns for
\* the text.
C14_SourceAndFormat ==
    Done =>
        \A k \in 1..Len(ret_chunks) :
            /\ ret_chunks[k].metadata.source = arg_source
            /\ ret_chunks[k].metadata.format =
                   IF arg_force_format # "None" THEN arg_force_format
                   ELSE DetectFormat(arg_text)

\* A call with a forced format that is not the one detect_format would have
\* chosen returns two chunks or more.
C14_Witness ==
    /\ Done
    /\ arg_force_format # "None"
    /\ arg_force_format # DetectFormat(arg_text)
    /\ Len(ret_chunks) >= 2

\* ------------------------------------------- claims on collaborator failure

\* C15: when the embedding call or the query of the store fails, retrieve
\* ends with that failure raised and returns no list; a list that is
\* returned empty means that the store answered and no candidate reached the
\* threshold.
C15_FailurePropagates ==
    /\ (retr_pc \in {"returned", "raised"} /\ retr_fault # "None") =>
           (retr_pc = "raised" /\ retr_error = retr_fault)
    /\ (Returned /\ ret_docs = <<>>) =>
           /\ retr_fault = "None"
           /\ CandidatesAtLeast(self_similarity_threshold) = {}

\* A second call on a store that holds chunks fails in the store: it is
\* raised, and the documents of the first call are all that was returned.
C15_Witness ==
    /\ retr_pc = "raised"
    /\ retr_error = "StoreError"
    /\ Len(collection) > 0
    /\ Len(retr_history) = 1

\* ------------------------------------------- claims on the returned entries

\* The index of the k-th candidate, in the order of the response, among those
\* whose 1 - distance reaches the threshold t.
NthAtLeast(t, k) ==
    CHOOSE i \in CandidatesAtLeast(t) :
        Cardinality({j \in CandidatesAtLeast(t) : j < i}) = k - 1

SeedOf(k) == OverlapSeed(ret_chunks[k - 1].content, arg_overlap)

\* Chunk k is its seed, a space, and more.
Seeded(k) ==
    /\ SeedOf(k) # <<>>
    /\ StartsWith(ret_chunks[k].content, SeedOf(k) \o <<SP>>)

\* The sentences of chunk k that follow its seed.
SentencesAfterSeed(k) ==
    SplitSentences(SubSeq(ret_chunks[k].content, Len(SeedOf(k)) + 2,
                          Len(ret_chunks[k].content)))

\* C20: in narrative chunking a sentence joins a buffer that is not empty
\* only when the buffer with the separator and the sentence stays within
\* chunk_size, so that every chunk with two sentences or more after its
\* overlap seed has at most chunk_size characters.
C20_SeededChunkWithinChunkSize ==
    (Done /\ arg_force_format = NARRATIVE) =>
        \A k \in 2..Len(ret_chunks) :
            (Seeded(k) /\ Len(SentencesAfterSeed(k)) >= 2)
                => Len(ret_chunks[k].content) <= arg_chunk_size

\* ------------------------------------------------------- claims on indexing

\* The run handed its records to add_documents.
Handed == idx_pc \in {"returned", "raised"} /\ idx_added # <<>>

\* The entries the glossary loader returned in the run.
LoadedGlossary == LoadGlossaryXlsx(idx_xlsx)

\* A row of the workbook reads as this content: its term, a line feed, its
\* definition, both stripped.
RowReadsAs(row, content) ==
    /\ row.terme # NaN
    /\ row.definition # NaN
    /\ content = Strip(row.terme) \o <<LF>> \o Strip(row.definition)

\* C16: in index_documents the glossary entries are handed to the store as
\* the loader returned them and are never given to the chunker, whose texts
\* are the contents of the PDF documents alone; a record handed to the store
\* has the type "glossaire" exactly when it comes from the glossary loader,
\* and every record of a PDF has the type narrative or section, the type of
\* its chunk in place of the "pdf" of the loader.
C16_GlossaryBypassesChunker ==
    Handed =>
        LET n == Len(LoadedGlossary)
        IN  /\ n <= Len(idx_added)
            /\ \A i \in 1..n :
                  /\ idx_added[i].content = LoadedGlossary[i].content
                  /\ idx_added[i].metadata = LoadedGlossary[i].metadata
                  /\ \E r \in 1..Len(idx_xlsx.rows) :
                        RowReadsAs(idx_xlsx.rows[r], idx_added[i].content)
            /\ Len(idx_chunked) = Len(idx_documents)
            /\ \A d \in 1..Len(idx_documents) :
                  idx_chunked[d] = idx_documents[d].content
            /\ \A i \in 1..Len(idx_added) :
                  (idx_added[i].metadata.type = "glossaire") <=> (i <= n)
            /\ \A i \in (n + 1)..Len(idx_added) :
                  /\ idx_added[i].metadata.type \in {"narrative", "section"}
                  /\ idx_added[i].metadata.doc_name \in
                        {idx_documents[d].filename : d \in 1..Len(idx_documents)}

\* A run hands glossary entries and the chunks of a PDF to the store.
C16_Witness ==
    /\ Handed
    /\ Len(LoadedGlossary) >= 1
    /\ Len(idx_added) > Len(LoadedGlossary)
    /\ idx_documents # <<>>

\* C17: whatever was done with LocalVectorStore (made on a new or on a
\* persisted collection, cleared, added to), the collection its query()
\* runs against has the cosine distance space.
C17_CollectionIsCosine ==
    vs_handle = "live" => persisted.space = CosineSpace

\* The store failed while index_documents was clearing the collection.
ClearFailed == idx_pc \in {"returned", "raised"} /\ clear_fault # "None"

\* C19: when the store fails while index_documents clears the collection,
\* the run ends with an exception and has handed nothing to add_documents.
C19_ClearFailureStopsRun ==
    ClearFailed => idx_pc = "raised" /\ idx_added = <<>>

\* ------------------------------------------------ claims on the overlap seed

\* The last m words of the string s, joined by spaces.
LastWordsOf(s, m) ==
    LET w == PySplit(s)
    IN  PyJoin(<<SP>>, SubSeq(w, Len(w) - m + 1, Len(w)))

\* C21: for every overlap from 0 on, the buffer that follows an emitted
\* narrative buffer of n words is seeded with exactly its last
\* min(overlap, n) words; with overlap 0 no word of a chunk is repeated in
\* the next, so that the words of the chunks are the words of the text.
C21_SeedIsLastOverlapWords ==
    (Done /\ arg_force_format = NARRATIVE) =>
        /\ \A k \in 1..(Len(ret_chunks) - 1) :
              OverlapSeed(ret_chunks[k].content, arg_overlap)
                  = LastWordsOf(ret_chunks[k].content,
                                Min2(arg_overlap, Len(PySplit(ret_chunks[k].content))))
        /\ arg_overlap = 0 =>
              PySplit(PyJoin(<<SP>>, [k \in 1..Len(ret_chunks) |-> ret_chunks[k].content]))
                  = PySplit(arg_text)

\* ------------------------------------------- claims on the size of a chunk

\* The length of the longest sentence of the text.
LongestSentence ==
    LET lens == {Len(SplitSentences(arg_text)[i]) : i \in 1..Len(SplitSentences(arg_text))}
    IN  IF lens = {} THEN 0 ELSE CHOOSE l \in lens : \A m \in lens : m <= l

SignatureAt(s, j) ==
    /\ j >= 4
    /\ j + 1 <= Len(s)
    /\ \A k \in (j - 3)..(j - 1) : ReLowerAcc(s[k])
    /\ ReUpperAcc(s[j])
    /\ ReLowerAcc(s[j + 1])

\* C23: the glossary_inline strategy breaks the line before an index exactly
\* when the inline signature of the classifier matches there, and gives the
\* text with those breaks to the newline strategy; a text on which the
\* classifier's detector matches nowhere goes to the newline strategy as it
\* is.
C23_BreaksWhereClassifierMatches ==
    (Done /\ arg_force_format = GLOSSARY_INLINE) =>
        \A breaks \in {InlineBreaks(arg_text, 1)} :
            /\ breaks = {j \in 1..Len(arg_text) : SignatureAt(arg_text, j)}
            /\ ~InlineGlued(arg_text) => breaks = {}

\* An uppercase letter: an ASCII capital or an accented capital.
IsUpperLetter(c) == c \in AsciiUpper \cup {UEACUTE}

\* C24: a sample line counts toward the glossary_inline score only if it
\* holds three or more lowercase letters immediately followed by an uppercase
\* letter that starts a word, and a line with no uppercase letter at all never
\* counts: so glossary_inline is never returned for a text without an
\* uppercase letter.
C24_InlineCountNeedsUppercase ==
    Detected =>
        \A lines \in {SampleLines(det_text)} :
            /\ \A i \in 1..Len(lines) :
                  InlineGlued(lines[i]) =>
                      \E j \in 4..(Len(lines[i]) - 1) :
                          /\ \A k \in (j - 3)..(j - 1) : ReLowerAcc(lines[i][k])
                          /\ IsUpperLetter(lines[i][j])
                          /\ ReLowerAcc(lines[i][j + 1])
            /\ ret_format = GLOSSARY_INLINE =>
                  \E i \in 1..Len(lines) : \E j \in 1..Len(lines[i]) : IsUpperLetter(lines[i][j])

\* The sections of the split of _chunk_sectioned, trimmed, the empty ones left
\* out.
TrimmedSections(text) ==
    LET sections == CutBefore(text, {i \in 1..Len(text) : SectionHeaderAt(text, i)})
        trimmed  == [k \in 1..Len(sections) |-> Strip(sections[k])]
    IN  SelectSeq(trimmed, LAMBDA x : x # <<>>)

\* The chunks of ret_chunks of one type, in order.
ChunksOfType(type) == SelectSeq(ret_chunks, LAMBDA c : c.metadata.type = type)

\* C25: in the sectioned strategy each non-empty trimmed section of at most
\* chunk_size characters gives exactly one chunk of type section with the
\* whole section as content, a longer section gives chunks of type narrative
\* only, an empty section gives nothing, and so no chunk of type section is
\* longer than chunk_size.
C25_SectionedChunks ==
    (Done /\ arg_force_format = SECTIONED) =>
        \A kept \in {TrimmedSections(arg_text)} :
            LET short == SelectSeq(kept, LAMBDA x : Len(x) <= arg_chunk_size)
                long  == SelectSeq(kept, LAMBDA x : Len(x) > arg_chunk_size)
                secs  == ChunksOfType("section")
                narr  == ChunksOfType("narrative")
            IN  /\ [k \in 1..Len(secs) |-> secs[k].content] = short
                /\ Len(secs) + Len(narr) = Len(ret_chunks)
                /\ Len(narr) >= Len(long)
                /\ long = <<>> => narr = <<>>
                /\ \A k \in 1..Len(secs) : Len(secs[k].content) <= arg_chunk_size

\* A sectioned text gave a chunk of type section and chunks of type
\* narrative, one section was as long as chunk_size and one was empty.
C25_Witness ==
    /\ Done /\ arg_force_format = SECTIONED
    /\ ChunksOfType("narrative") # <<>>
    /\ \E k \in 1..Len(ret_chunks) :
          /\ ret_chunks[k].metadata.type = "section"
          /\ Len(ret_chunks[k].content) = arg_chunk_size
    /\ Len(TrimmedSections(arg_text))
         < Len(CutBefore(arg_text, {i \in 1..Len(arg_text) : SectionHeaderAt(arg_text, i)}))

\* The trimmed sections of arg_text longer than arg_chunk_size.
LongSections ==
    SelectSeq(TrimmedSections(arg_text), LAMBDA x : Len(x) > arg_chunk_size)

\* C28: for the sectioned format the chunks do not depend on the overlap
\* argument: the sections longer than chunk_size are cut by the narrative
\* splitter with its default overlap of 80 words, whatever overlap the caller
\* passed.
C28_SectionedIgnoresOverlap ==
    (Done /\ arg_force_format = SECTIONED) =>
        \A long \in {LongSections} :
            /\ LET narr == ChunksOfType("narrative")
               IN  [k \in 1..Len(narr) |-> narr[k].content]
                     = Flatten([k \in 1..Len(long) |->
                                   NarrativeRaw(long[k], arg_chunk_size, DefaultOverlap)])
            /\ \A other \in 0..MaxOverlap :
                  Chunk(arg_text, arg_source, arg_force_format, arg_chunk_size, other)
                      = ret_chunks

\* A sectioned call whose overlap argument would have cut a long section
\* otherwise than the default overlap does.
C28_Witness ==
    /\ Done /\ arg_force_format = SECTIONED
    /\ \E k \in 1..Len(LongSections) :
          NarrativeRaw(LongSections[k], arg_chunk_size, arg_overlap)
              # NarrativeRaw(LongSections[k], arg_chunk_size, DefaultOverlap)

\* sub occurs in s as a run of consecutive characters.
IsInfix(sub, s) ==
    \E p \in 0..(Len(s) - Len(sub)) : SubSeq(s, p + 1, p + Len(sub)) = sub

\* The first chunk of ret_chunks that holds sub, 0 when none does.
FirstAppearance(sub) ==
    LET holding == {k \in 1..Len(ret_chunks) : IsInfix(sub, ret_chunks[k].content)}
    IN  IF holding = {} THEN 0 ELSE CHOOSE k \in holding : \A h \in holding : k <= h

\* Every chunk of ret_chunks is non-empty and has no whitespace at either end.
ChunksTrimmed ==
    \A k \in 1..Len(ret_chunks) :
        /\ ret_chunks[k].content # <<>>
        /\ Strip(ret_chunks[k].content) = ret_chunks[k].content

\* C29: narrative chunking loses no text: each non-empty sentence of the
\* sentence split appears whole in at least one chunk, the first appearances
\* follow the order of the sentences in the input, and every chunk is
\* non-empty with no whitespace at either end.
C29_NoTextLost ==
    (Done /\ arg_force_format = NARRATIVE) =>
        \A sentences \in {SelectSeq(SplitSentences(arg_text), LAMBDA x : x # <<>>)} :
            /\ \A i \in 1..Len(sentences) : FirstAppearance(sentences[i]) # 0
            /\ \A i \in 1..Len(sentences) : \A j \in i..Len(sentences) :
                  FirstAppearance(sentences[i]) <= FirstAppearance(sentences[j])
            /\ ChunksTrimmed

\* The sentences of the sentence split of arg_text, trimmed, the blank ones
\* left out.
TrimmedSentences ==
    LET raw == SplitSentences(arg_text)
    IN  SelectSeq([k \in 1..Len(raw) |-> Strip(raw[k])], LAMBDA x : x # <<>>)

\* The first chunk from chunk number from on that holds sub, 0 when none
\* does.
AppearanceFrom(sub, from) ==
    LET holding == {k \in from..Len(ret_chunks) : IsInfix(sub, ret_chunks[k].content)}
    IN  IF holding = {} THEN 0 ELSE CHOOSE k \in holding : \A h \in holding : k <= h

\* The sentences i.. are found one after the other in the chunks from.. on:
\* each in the chunk of the sentence before it or in a later one.
RECURSIVE FoundInOrder(_, _, _)
FoundInOrder(sentences, i, from) ==
    \/ i > Len(sentences)
    \/ \E k \in {AppearanceFrom(sentences[i], from)} :
          k # 0 /\ FoundInOrder(sentences, i + 1, k)

\* C29 with the sentences trimmed: each sentence that is not blank appears
\* whole, without the whitespace around it, in at least one chunk, the
\* sentences are found in the chunks in the order of the input, each in the
\* chunk of the sentence before it or in a later one, and every chunk is
\* non-empty with no whitespace at either end.
C29_NoSentenceLost ==
    (Done /\ arg_force_format = NARRATIVE) =>
        \A sentences \in {TrimmedSentences} :
            /\ FoundInOrder(sentences, 1, 1)
            /\ ChunksTrimmed

\* A narrative call on a text with whitespace around a sentence gave two or
\* more chunks, and a sentence of the text is written twice.
C29_Witness ==
    /\ Done /\ arg_force_format = NARRATIVE
    /\ Len(ret_chunks) >= 2
    /\ IsWs(arg_text[1])
    /\ \E i, j \in 1..Len(TrimmedSentences) :
          i < j /\ TrimmedSentences[i] = TrimmedSentences[j]

\* load_pdf has run on the first file of the directory.
PdfLoaded == "load_pdf" \in ld_done /\ ld_dir # <<>>

\* C30: when the first extractor fails at any page and load_pdf falls back
\* on the second, the text returned is what the second extractor read and
\* nothing else, so that the text of each page is in it at most once; when
\* both extractors fail the text is empty and load_all_documents leaves the
\* file out.
C30_FallbackTextOnly ==
    /\ PdfLoaded =>
          \A pdf \in {ld_dir[1]} :
              /\ (pdf.pdfplumber.raised /\ ~pdf.pypdf2.raised) =>
                    ret_text = CleanPdfText(ExtractedText(pdf.pages, "PyPDF2", Len(pdf.pages)))
              /\ (pdf.pdfplumber.raised /\ pdf.pypdf2.raised) => ret_text = <<>>
    /\ "load_all_documents" \in ld_done =>
          \A i \in 1..Len(ld_dir) :
              (ld_dir[i].pdfplumber.raised /\ ld_dir[i].pypdf2.raised) =>
                  \A d \in 1..Len(ret_documents) : ret_documents[d].filename # ld_dir[i].name

\* The content, type, source and format of each chunk of a sequence.
ShownFields(chunks) ==
    [k \in 1..Len(chunks) |->
        [content |-> chunks[k].content,
         type    |-> chunks[k].metadata.type,
         source  |-> chunks[k].metadata.source,
         format  |-> chunks[k].metadata.format]]

\* C27: debug_chunks.py shows what indexing stores: for every directory of PDF
\* files and every way the extractors fail, its chunks have the content, the
\* type, the source and the format of the records index_documents makes of
\* what load_all_documents returns.
C27_DebugShowsIndexedChunks ==
    {"load_all_documents", "debug_chunks"} \subseteq ld_done =>
        ShownFields(dbg_chunks)
            = ShownFields(Flatten([d \in 1..Len(ret_documents) |->
                              DocumentRecords(ret_documents[d],
                                              DefaultChunkSize, DefaultOverlap)]))

\* The sources of the documents of ag_docs, 'unknown' for a document whose
\* metadata has none.
RetrievedSources ==
    [i \in 1..Len(ag_docs) |-> DictGet(ag_docs[i].metadata, "source", "unknown")]

\* Where the source s first appears in ag_docs.
FirstDocOf(s) ==
    CHOOSE i \in 1..Len(ag_docs) :
        RetrievedSources[i] = s /\ \A j \in 1..(i - 1) : RetrievedSources[j] # s

\* The response of a call of process that has returned is the one C26
\* describes, and the calls made are those it allows.
ProcessAnswersAsStated ==
    /\ ag_retrieve_calls <= 1
    /\ ag_llm_calls <= 1
    /\ ag_pc \in {"retrieved", "responded"} => ag_retrieve_calls = 1
    /\ ag_pc = "responded" =>
          \A response \in {ag_response[1]} :
              IF ag_docs = <<>>
              THEN /\ ag_llm_calls = 0
                   /\ response.content = NoInformationMessage
                   /\ response.metadata.retrieved_docs_count = 0
                   /\ response.metadata.sources = <<>>
              ELSE /\ ag_llm_calls = 1
                   /\ response.metadata.retrieved_docs_count = Len(ag_docs)
                   /\ \A sources \in {response.metadata.sources} :
                         /\ {sources[k] : k \in 1..Len(sources)}
                               = {RetrievedSources[i] : i \in 1..Len(ag_docs)}
                         /\ \A k \in 1..(Len(sources) - 1) :
                               FirstDocOf(sources[k]) < FirstDocOf(sources[k + 1])

\* A step of process calls the LLM only after the one call of the retriever
\* returned documents, and calls the retriever only at its start.
ProcessCallsInOrder ==
    /\ ag_llm_calls' > ag_llm_calls =>
          ag_docs # <<>> /\ ag_retrieve_calls = 1 /\ ag_llm_calls' = 1
    /\ ag_retrieve_calls' > ag_retrieve_calls =>
          ag_retrieve_calls' = 1 /\ ag_llm_calls = 0

\* C26: RAGAgent.process calls the retriever exactly once; when the retriever
\* returns no document the response is the fixed no-information message with
\* retrieved_docs_count 0 and no source, and the LLM is never called; when it
\* returns documents the LLM is called exactly once and the metadata of the
\* response give the number of documents and their distinct sources in the
\* order of first appearance.
C26_ProcessCallsOnce == []ProcessAnswersAsStated /\ [][ProcessCallsInOrder]_vars

\* The second question was answered from three documents, two of them of one
\* source and one with no source.
C26_Witness ==
    /\ ag_pc = "responded"
    /\ ag_questions = MaxQuestions
    /\ ag_llm_calls = 1
    /\ Len(ag_docs) = MaxAgentDocs
    /\ Len(ag_response[1].metadata.sources) = 2
    /\ \E k \in 1..2 : ag_response[1].metadata.sources[k] = "unknown"

=========================================================================
